---- MODULE Spec2Model ----
(***************************************************************************)
(* jj-analyze: the Reference Table (parse.rs), the import of the backend   *)
(* expression into the Expr / Predicate model (expr.rs), the helper        *)
(* is_root_or_none, the entries and the cost heuristic (expr.rs, tree.rs)  *)
(* and the renderer (print.rs).                                            *)
(***************************************************************************)
EXTENDS Integers, Sequences, FiniteSets, TLC

VARIABLES pc, references, inserted, backend, expr, got, context, analyze, output,
          stack, result, pops

vars == <<pc, references, inserted, backend, expr, got, context, analyze, output,
          stack, result, pops>>

(***************************************************************************)
(* Bounds of the model.                                                    *)
(***************************************************************************)
\* number of ReferenceMap.insert calls made by resolve_user_expressions
MaxInserts == 2
\* number of operands of a nest of binary Expr Union / Intersection / Coalesce
MaxOperands == 4
\* number of operands of a nest of binary Predicate Union / Intersection, and
\* of an Intersection of range nodes
MaxPredicateOperands == 3
\* number of identifiers of a literal commit set
MaxCommits == 2

(***************************************************************************)
(* Unsigned integers.  u64 and u32 values do not fit TLC's integers, so a  *)
(* value is a tuple of 16-bit limbs, most significant limb first: four     *)
(* limbs for u64, two for u32.                                             *)
(***************************************************************************)
LimbBase == 2 ^ 16
LimbMax == LimbBase - 1

U64(n) == <<0, 0, 0, n>>
U64_MAX == <<LimbMax, LimbMax, LimbMax, LimbMax>>
U32(n) == <<0, n>>
U32_MAX == <<LimbMax, LimbMax>>

\* a < b on limb tuples of the same length
RECURSIVE LimbsLt(_, _)
LimbsLt(a, b) ==
    IF a = <<>> THEN FALSE
    ELSE IF Head(a) # Head(b) THEN Head(a) < Head(b)
    ELSE LimbsLt(Tail(a), Tail(b))

\* a - b for a >= b, limb by limb from the least significant, with borrow
RECURSIVE LimbsSub(_, _, _)
LimbsSub(a, b, borrow) ==
    IF a = <<>> THEN <<>>
    ELSE LET n == Len(a)
             d == a[n] - b[n] - borrow
         IN  Append(LimbsSub(SubSeq(a, 1, n - 1), SubSeq(b, 1, n - 1),
                             IF d < 0 THEN 1 ELSE 0),
                    IF d < 0 THEN d + LimbBase ELSE d)

\* u64::saturating_sub
SaturatingSub(a, b) ==
    IF LimbsLt(a, b) THEN [i \in 1..Len(a) |-> 0] ELSE LimbsSub(a, b, 0)

\* Range<T> as <<start, end>>
GENERATION_RANGE_FULL == <<U64(0), U64_MAX>>
PARENTS_RANGE_FULL == <<U32(0), U32_MAX>>

LargeRangeWidth == 10000

\* the width by wrapping subtraction: range.end - range.start modulo 2^64
IsLargeRangeNoSaturation(range) ==
    ~LimbsLt(LimbsSub(range[2], range[1], 0), U64(LargeRangeWidth))

\* expr.rs is_large_range
is_large_range(range) ==
    ~LimbsLt(SaturatingSub(range[2], range[1]), U64(LargeRangeWidth))

(***************************************************************************)
(* ResolvedReference and the ReferenceMap.                                 *)
(***************************************************************************)
RootRef == "root()"
VisibleHeadsRef == "visible_heads()"
VisibleHeadsOrReferencedRef == "visible_heads() and referenced revisions"
WorkingCopyRef == "@"

\* the texts resolve_user_expressions builds from the commit references
\* of the query; a quoted symbol can spell the text of a constant
UserReferences == {WorkingCopyRef, RootRef}

\* usize::to_le_bytes / usize::from_le_bytes, 8 bytes
RECURSIVE LeBytes(_, _)
LeBytes(n, k) == IF k = 0 THEN <<>> ELSE <<n % 256>> \o LeBytes(n \div 256, k - 1)

ToLeBytes(index) == LeBytes(index, 8)

RECURSIVE FromLeBytes(_)
FromLeBytes(bytes) ==
    IF bytes = <<>> THEN 0 ELSE Head(bytes) + 256 * FromLeBytes(Tail(bytes))

\* IndexSet::get_index_of: 0-based position, or -1 for None
GetIndexOf(refs, reference) ==
    IF \E i \in 1..Len(refs) : refs[i] = reference
    THEN (CHOOSE i \in 1..Len(refs) : refs[i] = reference) - 1
    ELSE -1

\* ReferenceMap::insert without the lookup: always appends
MapInsertNoDedup(refs, reference) ==
    [references |-> Append(refs, reference), id |-> ToLeBytes(Len(refs))]

\* ReferenceMap::insert: the table after the call and the CommitId returned
MapInsert(refs, reference) ==
    LET found == GetIndexOf(refs, reference)
    IN  IF found >= 0
        THEN [references |-> refs, id |-> ToLeBytes(found)]
        ELSE [references |-> Append(refs, reference), id |-> ToLeBytes(Len(refs))]

\* ReferenceMap::get on an identifier of the table
MapGet(refs, commit_id) == refs[FromLeBytes(commit_id) + 1]

\* the index test off by one: the entry inserted last is not found
GetPanicsOnLast(refs, commit_id) == FromLeBytes(commit_id) >= Len(refs) - 1

\* get_index returns None: expect("commit ID should be present") panics
GetPanics(refs, commit_id) == FromLeBytes(commit_id) >= Len(refs)

\* try_into::<[u8; 8]> fails: expect("should have correct number of bytes") panics
GetPanicsOnLength(commit_id) == Len(commit_id) # 8

(***************************************************************************)
(* The backend expression (jj_lib ResolvedExpression and                   *)
(* ResolvedPredicateExpression) and its constructors.  Predicate kinds     *)
(* carry a P prefix to tell Predicate::Union from Expr::Union.             *)
(***************************************************************************)
Commits(ids) == [kind |-> "Commits", ids |-> ids]
Binary(kind, expr1, expr2) == [kind |-> kind, expr1 |-> expr1, expr2 |-> expr2]
Unary(kind, e) == [kind |-> kind, expr |-> e]
NoFilter == [kind |-> "NoFilter"]

\* the Expr and Predicate model values of expr.rs
None == [kind |-> "None"]
Reference(reference) == [kind |-> "Reference", reference |-> reference]
List(kind, exprs) == [kind |-> kind, exprs |-> exprs]
PSet(e) == [kind |-> "PSet", expr |-> e]

\* commit_ids.iter().any(|id| reference_map.get(id) == visible_heads())
AnyVisibleHeads(ids, refs) ==
    \E i \in 1..Len(ids) : MapGet(refs, ids[i]) = VisibleHeadsRef

\* commit_ids.iter().map(|id| Self::Reference(reference_map.get(id)))
References(ids, refs) == [i \in 1..Len(ids) |-> Reference(MapGet(refs, ids[i]))]

\* the arms of Expr::parse for ResolvedExpression::Commits, with the
\* visible-heads arm tried before the one-element arm
ParseCommitsHeadsFirst(ids, refs) ==
    IF Len(ids) = 0 THEN None
    ELSE IF AnyVisibleHeads(ids, refs) THEN Reference(VisibleHeadsOrReferencedRef)
    ELSE IF Len(ids) = 1 THEN Reference(MapGet(refs, ids[1]))
    ELSE List("Union", References(ids, refs))

\* the four arms of Expr::parse for ResolvedExpression::Commits
ParseCommits(ids, refs) ==
    IF Len(ids) = 0 THEN None
    ELSE IF Len(ids) = 1 THEN Reference(MapGet(refs, ids[1]))
    ELSE IF AnyVisibleHeads(ids, refs) THEN Reference(VisibleHeadsOrReferencedRef)
    ELSE List("Union", References(ids, refs))

\* stack.push(b); stack.push(a): the top of the stack is the end of the tuple
PushOperandsLeftFirst(pending, a, b) == pending \o <<a, b>>

\* stack.push(b) left out
PushOperandsDropsRight(pending, a, b) == Append(pending, a)

PushOperands(pending, a, b) == pending \o <<b, a>>

\* the literal arm of the Union loop left out: every operand goes to
\* result.push(Self::parse(..))
ExpandsInUnionNever(next, refs) == FALSE

\* the literal arm of the Union loop without its guard: every literal set is
\* expanded
ExpandsInUnionAlways(next, refs) == next.kind = "Commits"

\* the guard of the literal arm of the Union loop (expr.rs:438-441)
ExpandsInUnion(next, refs) ==
    next.kind = "Commits" /\ ~AnyVisibleHeads(next.ids, refs)

\* the Set arm without its Expr::Union case: the Set is pushed whole
SpliceSetNoSplice(parsed) == <<PSet(parsed)>>

\* the Set arm of the Predicate Union loop (expr.rs:113-120)
SpliceSet(parsed) ==
    IF parsed.kind = "Union"
    THEN [i \in 1..Len(parsed.exprs) |-> PSet(parsed.exprs[i])]
    ELSE <<PSet(parsed)>>

RECURSIVE ExprParse(_, _)
RECURSIVE PredicateParse(_, _)
RECURSIVE FlattenExpr(_, _, _, _)
RECURSIVE FlattenPredicate(_, _, _, _)

\* the work-stack loop of the Coalesce, Union and Intersection arms of
\* Expr::parse: stack.pop() takes the last element
FlattenExpr(kind, pending, flat, refs) ==
    IF pending = <<>> THEN flat
    ELSE LET next == pending[Len(pending)]
             rest == SubSeq(pending, 1, Len(pending) - 1)
         IN  IF next.kind = kind
             THEN FlattenExpr(kind, PushOperands(rest, next.expr1, next.expr2),
                              flat, refs)
             ELSE IF kind = "Union" /\ ExpandsInUnion(next, refs)
             THEN FlattenExpr(kind, rest, flat \o References(next.ids, refs), refs)
             ELSE FlattenExpr(kind, rest, Append(flat, ExprParse(next, refs)), refs)

\* the work-stack loop of the Union and Intersection arms of Predicate::parse
FlattenPredicate(kind, pending, flat, refs) ==
    IF pending = <<>> THEN flat
    ELSE LET next == pending[Len(pending)]
             rest == SubSeq(pending, 1, Len(pending) - 1)
         IN  IF next.kind = kind
             THEN FlattenPredicate(kind, PushOperands(rest, next.expr1, next.expr2),
                                   flat, refs)
             ELSE IF kind = "PUnion" /\ next.kind = "PSet"
             THEN FlattenPredicate(kind, rest,
                                   flat \o SpliceSet(ExprParse(next.expr, refs)), refs)
             ELSE FlattenPredicate(kind, rest,
                                   Append(flat, PredicateParse(next, refs)), refs)

\* Predicate::parse
PredicateParse(p, refs) ==
    CASE p.kind = "PFilter" -> p
      [] p.kind = "PDivergent" ->
            [kind |-> "PDivergent",
             visible_heads |-> ExprParse(Commits(p.visible_heads), refs)]
      [] p.kind = "PSet" -> PSet(ExprParse(p.expr, refs))
      [] p.kind = "PNotIn" -> [kind |-> "PNotIn", expr |-> PredicateParse(p.expr, refs)]
      [] p.kind \in {"PUnion", "PIntersection"} ->
            List(p.kind, FlattenPredicate(p.kind, <<p.expr2, p.expr1>>, <<>>, refs))

\* Expr::parse
ExprParse(e, refs) ==
    CASE e.kind = "Commits" -> ParseCommits(e.ids, refs)
      [] e.kind = "Ancestors" ->
            [kind |-> "Ancestors", heads |-> ExprParse(e.heads, refs),
             generation |-> e.generation, parents_range |-> e.parents_range]
      [] e.kind = "Range" ->
            [kind |-> "Range", roots |-> ExprParse(e.roots, refs),
             heads |-> ExprParse(e.heads, refs),
             generation |-> e.generation, parents_range |-> e.parents_range]
      [] e.kind = "DagRange" ->
            [kind |-> "DagRange", roots |-> ExprParse(e.roots, refs),
             heads |-> ExprParse(e.heads, refs),
             generation_from_roots |-> e.generation_from_roots]
      [] e.kind = "Reachable" ->
            [kind |-> "Reachable", sources |-> ExprParse(e.sources, refs),
             domain |-> ExprParse(e.domain, refs)]
      [] e.kind \in {"Heads", "Roots", "ForkPoint", "Bisect"} ->
            Unary(e.kind, ExprParse(e.expr, refs))
      [] e.kind = "HeadsRange" ->
            [kind |-> "HeadsRange", roots |-> ExprParse(e.roots, refs),
             heads |-> ExprParse(e.heads, refs), parents_range |-> e.parents_range,
             filter |-> IF e.filter = NoFilter THEN NoFilter
                        ELSE PredicateParse(e.filter, refs)]
      [] e.kind \in {"HasSize", "Latest"} ->
            [kind |-> e.kind, candidates |-> ExprParse(e.candidates, refs),
             count |-> e.count]
      [] e.kind \in {"Coalesce", "Union", "Intersection"} ->
            List(e.kind, FlattenExpr(e.kind, <<e.expr2, e.expr1>>, <<>>, refs))
      [] e.kind = "FilterWithin" ->
            [kind |-> "FilterWithin", candidates |-> ExprParse(e.candidates, refs),
             predicate |-> PredicateParse(e.predicate, refs)]
      [] e.kind = "Difference" ->
            Binary("Difference", ExprParse(e.expr1, refs), ExprParse(e.expr2, refs))

\* the expressions and predicates a backend expression holds directly
BackendOperands(e) ==
    CASE e.kind \in {"Coalesce", "Union", "Intersection", "Difference", "PUnion",
                     "PIntersection"} -> <<e.expr1, e.expr2>>
      [] e.kind = "Ancestors" -> <<e.heads>>
      [] e.kind \in {"Range", "DagRange"} -> <<e.roots, e.heads>>
      [] e.kind = "Reachable" -> <<e.sources, e.domain>>
      [] e.kind \in {"Heads", "Roots", "ForkPoint", "Bisect", "PSet", "PNotIn"} -> <<e.expr>>
      [] e.kind = "HeadsRange" ->
            IF e.filter = NoFilter THEN <<e.roots, e.heads>>
            ELSE <<e.roots, e.heads, e.filter>>
      [] e.kind \in {"HasSize", "Latest"} -> <<e.candidates>>
      [] e.kind = "FilterWithin" -> <<e.candidates, e.predicate>>
      [] OTHER -> <<>>

\* every identifier of the set looked up, whatever comes before it
CommitsPanicsAnyStray(ids, refs) == \E i \in 1..Len(ids) : GetPanics(refs, ids[i])

\* whether a reference_map.get of the arms for a literal set panics: the one
\* element is looked up (expr.rs:344-345); in a larger set any() looks the
\* elements up in order and stops at the first that is visible_heads()
\* (expr.rs:347-350, 438-441), and only a scan that found none is followed by
\* the lookup of every element
CommitsPanics(ids, refs) ==
    IF Len(ids) = 1 THEN GetPanics(refs, ids[1])
    ELSE \E i \in 1..Len(ids) :
             /\ GetPanics(refs, ids[i])
             /\ \A j \in 1..(i - 1) :
                    GetPanics(refs, ids[j]) \/ MapGet(refs, ids[j]) # VisibleHeadsRef

\* whether Expr::parse / Predicate::parse panics in a reference_map.get
RECURSIVE ParsePanics(_, _)
ParsePanics(e, refs) ==
    CASE e.kind = "Commits" -> CommitsPanics(e.ids, refs)
      [] e.kind = "PDivergent" -> CommitsPanics(e.visible_heads, refs)
      [] OTHER ->
            \E i \in 1..Len(BackendOperands(e)) : ParsePanics(BackendOperands(e)[i], refs)

(***************************************************************************)
(* Expr::is_root_or_none.                                                  *)
(***************************************************************************)
\* exprs.iter().all(..) in place of any(..), over the members' results
IntersectionIsRootOrNoneAll(results) == \A i \in 1..Len(results) : results[i]

\* Self::Intersection(exprs) => exprs.iter().any(..), over the members' results
IntersectionIsRootOrNone(results) == \E i \in 1..Len(results) : results[i]

RECURSIVE is_root_or_none(_)
is_root_or_none(e) ==
    CASE e.kind = "None" -> TRUE
      [] e.kind = "Reference" -> e.reference = RootRef
      [] e.kind \in {"Coalesce", "Union"} ->
            \A i \in 1..Len(e.exprs) : is_root_or_none(e.exprs[i])
      [] e.kind = "Intersection" ->
            IntersectionIsRootOrNone([i \in 1..Len(e.exprs) |-> is_root_or_none(e.exprs[i])])
      [] OTHER -> FALSE

\* Expr::is_none
is_none(e) == e.kind = "None"

(***************************************************************************)
(* AnalyzeContext, AnalyzeCost and the cost heuristic.                     *)
(***************************************************************************)
Contexts == {"Eager", "Lazy", "Predicate", "Resolved"}

\* predicate_to_lazy without its Predicate arm
PredicateToLazyOther(c) == c

predicate_to_lazy(c) == IF c = "Predicate" THEN "Lazy" ELSE c

\* eager_to_lazy without its Eager arm
EagerToLazyOther(c) == c

eager_to_lazy(c) == IF c = "Eager" THEN "Lazy" ELSE c

\* the Ancestors guard with the context test left out
AncestorsIsSlowAnyContext(e, c) ==
    ~is_root_or_none(e.heads) /\ is_large_range(e.generation)

\* the guard of the Ancestors arm of Expr::cost
AncestorsIsSlow(e, c) ==
    c = "Eager" /\ ~is_root_or_none(e.heads) /\ is_large_range(e.generation)

\* the Range guard with the test of roots left out
RangeIsSlowAnyRoots(e, c) ==
    c = "Eager" /\ ~is_root_or_none(e.heads) /\ is_large_range(e.generation)

\* the Range guard with the Lazy context in the place of the Eager one
RangeIsSlowWhenLazy(e, c) ==
    /\ c = "Lazy"
    /\ is_root_or_none(e.roots)
    /\ ~is_root_or_none(e.heads)
    /\ is_large_range(e.generation)

\* the guard of the Range arm of Expr::cost
RangeIsSlow(e, c) ==
    /\ c = "Eager"
    /\ is_root_or_none(e.roots)
    /\ ~is_root_or_none(e.heads)
    /\ is_large_range(e.generation)

\* the DagRange guard with the is_none test left out
DagRangeIsSlowNoneRoots(e, c) ==
    /\ is_root_or_none(e.roots)
    /\ ~is_root_or_none(e.heads)
    /\ is_large_range(e.generation_from_roots)

\* the guard of the DagRange arm of Expr::cost
DagRangeIsSlow(e, c) ==
    /\ ~is_none(e.roots)
    /\ is_root_or_none(e.roots)
    /\ ~is_root_or_none(e.heads)
    /\ is_large_range(e.generation_from_roots)

\* the members of an Intersection costed under the context its entry hands them
IntersectionMemberContextLazy(c) == eager_to_lazy(c)

\* expr.cost(context) in the Intersection arm: the ambient context itself
IntersectionMemberContext(c) == c

RECURSIVE ExprCost(_, _)
\* impl AnalyzeTree for Expr: cost
ExprCost(e, c) ==
    CASE e.kind = "Ancestors" /\ AncestorsIsSlow(e, c) -> "Slow"
      [] e.kind = "Range" /\ RangeIsSlow(e, c) -> "Slow"
      [] e.kind = "DagRange" /\ DagRangeIsSlow(e, c) -> "Slow"
      [] /\ e.kind = "Intersection"
         /\ \A i \in 1..Len(e.exprs) :
                ExprCost(e.exprs[i], IntersectionMemberContext(c)) = "Slow" -> "Slow"
      [] OTHER -> "Fast"

\* Predicate cost with the Set costed under the context passed in
PredicateCostAmbient(p, c) ==
    IF p.kind = "PSet" THEN ExprCost(p.expr, c) ELSE "Fast"

\* impl AnalyzeTree for Predicate: cost
PredicateCost(p, c) ==
    IF p.kind = "PSet" THEN ExprCost(p.expr, "Predicate") ELSE "Fast"

\* impl AnalyzeTree for usize, Range<u64>, Range<u32>, ResolvedReference: cost
LeafCost(leaf, c) == "Fast"

(***************************************************************************)
(* The pattern formatters of print.rs that the entries use: numbers in     *)
(* decimal, ranges, file sets.  Option<String> is a tuple of no or one     *)
(* string.                                                                 *)
(***************************************************************************)
Digits == <<"0", "1", "2", "3", "4", "5", "6", "7", "8", "9">>

\* usize::to_string
RECURSIVE ToDecimalString(_)
ToDecimalString(n) ==
    IF n < 10 THEN Digits[n + 1]
    ELSE ToDecimalString(n \div 10) \o Digits[(n % 10) + 1]

\* limbs divided by ten: the quotient limbs followed by the remainder
RECURSIVE LimbsDivTen(_, _)
LimbsDivTen(a, carry) ==
    IF a = <<>> THEN <<carry>>
    ELSE LET v == carry * LimbBase + Head(a)
         IN  <<v \div 10>> \o LimbsDivTen(Tail(a), v % 10)

IsZero(a) == \A i \in 1..Len(a) : a[i] = 0

\* u64 / u32 Display
RECURSIVE UnsignedToString(_)
UnsignedToString(a) ==
    LET d == LimbsDivTen(a, 0)
        q == SubSeq(d, 1, Len(a))
        r == d[Len(a) + 1]
    IN  IF IsZero(q) THEN Digits[r + 1] ELSE UnsignedToString(q) \o Digits[r + 1]

One(a) == [i \in 1..Len(a) |-> IF i = Len(a) THEN 1 ELSE 0]

\* range.end - T::from(1u32), for end >= 1
MinusOne(a) == LimbsSub(a, One(a), 0)

\* print.rs format_range
format_range(range, full_range) ==
    IF range[1] = full_range[1] /\ range[2] = full_range[2] THEN <<>>
    ELSE IF range[1] = range[2] THEN <<"empty range">>
    ELSE IF range[1] = MinusOne(range[2]) THEN <<UnsignedToString(range[1])>>
    ELSE IF range[2] = full_range[2] THEN <<UnsignedToString(range[1]) \o "..">>
    ELSE <<UnsignedToString(range[1]) \o ".." \o UnsignedToString(range[2])>>

\* Option::unwrap_or_default
UnwrapOrDefault(option) == IF option = <<>> THEN "" ELSE option[1]

\* print.rs format_fileset_expression, for the file sets all() and none()
format_fileset_expression(files) ==
    CASE files = "All" -> "all()"
      [] files = "None" -> "none()"

\* the test of the merges() arm with the end of the range left out
IsMergesFromTwo(range) == range[1] = U32(2)

\* *range == (2..u32::MAX)
IsMerges(range) == range = <<U32(2), U32_MAX>>

\* expr.rs filter_to_string, for the filters ParentCount, File, HasConflict
\* and Signed; the range text is the one format_range gives
filter_to_string(filter) ==
    CASE filter.filter = "ParentCount" ->
            IF IsMerges(filter.range) THEN "merges()"
            ELSE "parent_count("
                 \o UnwrapOrDefault(format_range(filter.range, PARENTS_RANGE_FULL))
                 \o ")"
      [] filter.filter = "File" ->
            "files(" \o format_fileset_expression(filter.files) \o ")"
      [] filter.filter = "HasConflict" -> "conflicts()"
      [] filter.filter = "Signed" -> "signed()"

(***************************************************************************)
(* TreeEntry, Child and the entry of every AnalyzeTree: Expr, Predicate,   *)
(* ResolvedReference, usize, Range<u64> and Range<u32>.  A child's tree is *)
(* an Expr or Predicate value or one of the leaf values below; an          *)
(* Option<Child> and a label are tuples of no or one element.              *)
(***************************************************************************)
Usize(n) == [kind |-> "usize", value |-> n]
RangeU64(range) == [kind |-> "Range<u64>", range |-> range]
RangeU32(range) == [kind |-> "Range<u32>", range |-> range]
LeafKinds == {"usize", "Range<u64>", "Range<u32>"}

Some(x) == <<x>>
NoLabel == <<>>
Child(label, c, tree) == [label |-> label, context |-> c, tree |-> tree]
TreeEntry(name, c, children) == [name |-> name, context |-> c, children |-> children]

\* bool::then
Then(condition, child) == IF condition THEN <<child>> ELSE <<>>

\* expr.rs only_present: children.into_iter().flatten().collect()
RECURSIVE only_present(_)
only_present(children) ==
    IF children = <<>> THEN <<>> ELSE Head(children) \o only_present(Tail(children))

\* exprs.iter().map(|expr| Child { label: None, context, tree: expr }).collect()
Unlabeled(exprs, c) == [i \in 1..Len(exprs) |-> Child(NoLabel, c, exprs[i])]

\* impl AnalyzeTree for ResolvedReference: entry
ReferenceEntry(reference, c) == TreeEntry(reference, "Resolved", <<>>)

\* impl AnalyzeTree for usize, Range<u64>, Range<u32>: entry
LeafEntry(leaf, c) ==
    CASE leaf.kind = "usize" -> TreeEntry(ToDecimalString(leaf.value), "Resolved", <<>>)
      [] leaf.kind = "Range<u64>" ->
            TreeEntry(UnwrapOrDefault(format_range(leaf.range, <<U64(0), U64_MAX>>)),
                      "Resolved", <<>>)
      [] leaf.kind = "Range<u32>" ->
            TreeEntry(UnwrapOrDefault(format_range(leaf.range, <<U32(0), U32_MAX>>)),
                      "Resolved", <<>>)

\* the DagRange context with the full range in place of 1..2
DagRangeEntryContextFull(generation_from_roots, c) ==
    IF generation_from_roots = GENERATION_RANGE_FULL
    THEN predicate_to_lazy(c) ELSE "Eager"

\* the context of the DagRange entry (expr.rs:552-556)
DagRangeEntryContext(generation_from_roots, c) ==
    IF generation_from_roots = <<U64(1), U64(2)>>
    THEN predicate_to_lazy(c) ELSE "Eager"

\* the candidates of Latest handed Lazy as those of HasSize are
CandidatesContextLazy(kind) == "Lazy"

\* the context of the candidates child of HasSize (expr.rs:669) and of
\* Latest (expr.rs:685)
CandidatesContext(kind) == IF kind = "HasSize" THEN "Lazy" ELSE "Eager"

\* the members of an Intersection entered under the context of the node
IntersectionEntryContextAmbient(c) == c

\* expr.rs:733-744  the context the members of an Intersection are entered
\* under: context.eager_to_lazy()
IntersectionEntryContext(c) == eager_to_lazy(c)

\* the members of a Coalesce or Union handed what those of an Intersection are
UnionMemberContextLazy(c) == eager_to_lazy(c)

\* the context of the members of Coalesce (expr.rs:697) and Union (expr.rs:709)
UnionMemberContext(c) == c

\* impl AnalyzeTree for Expr: entry
ExprEntry(e, c) ==
    CASE e.kind = "None" -> TreeEntry("none()", "Resolved", <<>>)
      [] e.kind = "Reference" -> ReferenceEntry(e.reference, c)
      [] e.kind = "Ancestors" ->
            TreeEntry("Ancestors", predicate_to_lazy(c), only_present(<<
                Then(e.generation # GENERATION_RANGE_FULL,
                     Child(Some("generation"), c, RangeU64(e.generation))),
                Then(e.parents_range # PARENTS_RANGE_FULL,
                     Child(Some("parent_index"), c, RangeU32(e.parents_range))),
                Some(Child(Some("heads"), "Eager", e.heads))>>))
      [] e.kind = "Range" ->
            TreeEntry("Range", predicate_to_lazy(c), only_present(<<
                Then(e.generation # GENERATION_RANGE_FULL,
                     Child(Some("generation"), c, RangeU64(e.generation))),
                Then(e.parents_range # PARENTS_RANGE_FULL,
                     Child(Some("parent_index"), c, RangeU32(e.parents_range))),
                Some(Child(Some("roots"), "Eager", e.roots)),
                Some(Child(Some("heads"), "Eager", e.heads))>>))
      [] e.kind = "DagRange" ->
            TreeEntry("DagRange", DagRangeEntryContext(e.generation_from_roots, c),
                only_present(<<
                Then(e.generation_from_roots # GENERATION_RANGE_FULL,
                     Child(Some("generation_from_roots"), c,
                           RangeU64(e.generation_from_roots))),
                Some(Child(Some("roots"), "Eager", e.roots)),
                Some(Child(Some("heads"), "Eager", e.heads))>>))
      [] e.kind = "Reachable" ->
            TreeEntry("Reachable", "Eager",
                <<Child(Some("sources"), "Predicate", e.sources),
                  Child(Some("domain"), "Eager", e.domain)>>)
      [] e.kind \in {"Heads", "Roots", "ForkPoint", "Bisect"} ->
            TreeEntry(e.kind, "Eager", <<Child(NoLabel, "Eager", e.expr)>>)
      [] e.kind = "HeadsRange" ->
            TreeEntry("HeadsRange", "Eager", only_present(<<
                Then(e.parents_range # PARENTS_RANGE_FULL,
                     Child(Some("parent_index"), c, RangeU32(e.parents_range))),
                Some(Child(Some("roots"), "Eager", e.roots)),
                Some(Child(Some("heads"), "Eager", e.heads)),
                Then(e.filter # NoFilter, Child(Some("filter"), "Predicate", e.filter))>>))
      [] e.kind \in {"HasSize", "Latest"} ->
            TreeEntry(e.kind, "Eager",
                <<Child(Some("count"), "Resolved", Usize(e.count)),
                  Child(Some("candidates"), CandidatesContext(e.kind), e.candidates)>>)
      [] e.kind \in {"Coalesce", "Union"} ->
            TreeEntry(e.kind, c, Unlabeled(e.exprs, UnionMemberContext(c)))
      [] e.kind = "FilterWithin" ->
            TreeEntry("FilterWithin", c,
                <<Child(Some("candidates"), c, e.candidates),
                  Child(Some("predicate"), "Predicate", e.predicate)>>)
      [] e.kind = "Intersection" ->
            TreeEntry("Intersection", c, Unlabeled(e.exprs, IntersectionEntryContext(c)))
      [] e.kind = "Difference" ->
            TreeEntry("Difference", c,
                <<Child(Some("candidates"), c, e.expr1),
                  Child(Some("excluded"), eager_to_lazy(c), e.expr2)>>)

\* Self::Filter(RevsetFilterPredicate::File(FilesetExpression::All))
IsFileAll(p) == p.kind = "PFilter" /\ p.filter.filter = "File" /\ p.filter.files = "All"

\* the NotIn arm without its two Filter cases: always the wrapper
NotInEntryWrapper(p, c) ==
    TreeEntry("NotIn", "Predicate", <<Child(NoLabel, "Predicate", p.expr)>>)

\* Self::NotIn(expr) => match expr.as_ref() { .. } (expr.rs:166-186)
NotInEntry(p, c) ==
    IF IsFileAll(p.expr) THEN TreeEntry("empty()", "Predicate", <<>>)
    ELSE IF p.expr.kind = "PFilter"
    THEN TreeEntry("~" \o filter_to_string(p.expr.filter), "Predicate", <<>>)
    ELSE TreeEntry("NotIn", "Predicate", <<Child(NoLabel, "Predicate", p.expr)>>)

\* the entry of the wrapped Expr under the context passed in
SetEntryAmbient(p, c) == ExprEntry(p.expr, c)

\* Self::Set(expr) => expr.entry(AnalyzeContext::Predicate)
SetEntry(p, c) == ExprEntry(p.expr, "Predicate")

\* impl AnalyzeTree for Predicate: entry
PredicateEntry(p, c) ==
    CASE IsFileAll(p) -> TreeEntry("~empty()", "Predicate", <<>>)
      [] p.kind = "PFilter" /\ ~IsFileAll(p) ->
            TreeEntry(filter_to_string(p.filter), "Predicate", <<>>)
      [] p.kind = "PDivergent" ->
            TreeEntry("Divergent", "Predicate",
                <<Child(Some("visible_heads"), "Eager", p.visible_heads)>>)
      [] p.kind = "PSet" -> SetEntry(p, c)
      [] p.kind = "PNotIn" -> NotInEntry(p, c)
      [] p.kind = "PUnion" -> TreeEntry("Union", "Predicate", Unlabeled(p.exprs, "Predicate"))
      [] p.kind = "PIntersection" ->
            TreeEntry("Intersection", "Predicate", Unlabeled(p.exprs, "Predicate"))

PredicateTreeKinds == {"PFilter", "PDivergent", "PSet", "PNotIn", "PUnion", "PIntersection"}

\* tree.entry(context) of a &dyn AnalyzeTree
Entry(tree, c) ==
    IF tree.kind \in LeafKinds THEN LeafEntry(tree, c)
    ELSE IF tree.kind \in PredicateTreeKinds THEN PredicateEntry(tree, c)
    ELSE ExprEntry(tree, c)

\* tree.cost(context) of a &dyn AnalyzeTree
Cost(tree, c) ==
    IF tree.kind \in LeafKinds THEN LeafCost(tree, c)
    ELSE IF tree.kind \in PredicateTreeKinds THEN PredicateCost(tree, c)
    ELSE ExprCost(tree, c)

(***************************************************************************)
(* The renderer of print.rs.  The output is a tuple of lines, a line the   *)
(* tuple of the pieces print! wrote to it, a piece a text with the style   *)
(* the colored crate gave it.                                              *)
(***************************************************************************)
Token(text, colour, bold, dimmed) ==
    [text |-> text, colour |-> colour, bold |-> bold, dimmed |-> dimmed]
Plain(text) == Token(text, "none", FALSE, FALSE)
Dimmed(text) == Token(text, "none", FALSE, TRUE)

RECURSIVE Spaces(_)
Spaces(n) == IF n = 0 THEN "" ELSE " " \o Spaces(n - 1)

\* one space for each level
IndentOneSpace(depth) == Spaces(depth)

\* print.rs indent: the empty string padded to depth * 2
indent(depth) == Spaces(depth * 2)

\* the marker printed for every Slow node, with analyze on or off
MarkerTokensAlways(tree, c, a) ==
    IF Cost(tree, c) = "Slow"
    THEN <<Token("(EXPENSIVE)", "bright_red", TRUE, FALSE), Plain(" ")>>
    ELSE <<>>

\* print.rs:24-29  if analyze { if tree.cost(context) == Slow { print!(..) } }
MarkerTokens(tree, c, a) ==
    IF a
    THEN IF Cost(tree, c) = "Slow"
         THEN <<Token("(EXPENSIVE)", "bright_red", TRUE, FALSE), Plain(" ")>>
         ELSE <<>>
    ELSE <<>>

\* the colour of the name with the test of Resolved left out when analyze is off
NameColourAllBlue(a, entry_context) ==
    IF a
    THEN CASE entry_context = "Eager" -> "bright_blue"
           [] entry_context = "Lazy" -> "bright_cyan"
           [] entry_context = "Predicate" -> "bright_magenta"
           [] entry_context = "Resolved" -> "none"
    ELSE "blue"

\* print.rs:30-41  the colour of the name
NameColour(a, entry_context) ==
    IF a
    THEN CASE entry_context = "Eager" -> "bright_blue"
           [] entry_context = "Lazy" -> "bright_cyan"
           [] entry_context = "Predicate" -> "bright_magenta"
           [] entry_context = "Resolved" -> "none"
    ELSE IF entry_context # "Resolved" THEN "blue" ELSE "none"

\* the brackets chosen by the number of children before their labels
BracketsByCount(children) ==
    IF Len(children) = 1 THEN <<"(", ")">>
    ELSE IF \E i \in 1..Len(children) : children[i].label # <<>> THEN <<" {", "}">>
    ELSE <<" [", "]">>

\* print.rs:47-53  (start, end)
Brackets(children) ==
    IF \E i \in 1..Len(children) : children[i].label # <<>> THEN <<" {", "}">>
    ELSE IF Len(children) = 1 THEN <<"(", ")">>
    ELSE <<" [", "]">>

RECURSIVE print_helper(_, _, _, _)
RECURSIVE PrintChildren(_, _, _)

\* print.rs:58-66  for child in &entry.children: the child's first line
\* follows the indent and the label on the same line
PrintChildren(children, depth, a) ==
    IF children = <<>> THEN <<>>
    ELSE LET child == Head(children)
             prefix == <<Plain(indent(depth + 1))>>
                       \o (IF child.label # <<>>
                           THEN <<Dimmed(child.label[1] \o ":"), Plain(" ")>>
                           ELSE <<>>)
             lines == print_helper(child.tree, child.context, depth + 1, a)
         IN  <<prefix \o Head(lines)>> \o Tail(lines)
             \o PrintChildren(Tail(children), depth, a)

\* print.rs print_helper
print_helper(tree, c, depth, a) ==
    LET entry == Entry(tree, c)
        some == entry.children # <<>>
        name == Token(entry.name, NameColour(a, entry.context), some, FALSE)
        brackets == Brackets(entry.children)
    IN  <<MarkerTokens(tree, c, a) \o <<name>>
          \o (IF some THEN <<Dimmed(brackets[1])>> ELSE <<>>)>>
        \o PrintChildren(entry.children, depth, a)
        \o (IF some THEN <<<<Plain(indent(depth)), Dimmed(brackets[2])>>>> ELSE <<>>)

\* print.rs pretty_print
pretty_print(tree, c, a) == print_helper(tree, c, 0, a)

\* the values of --context: Resolved is #[value(skip)]
ArgContexts == {"Eager", "Lazy", "Predicate"}

(***************************************************************************)
(* The run: parse() inserts root() and visible_heads(), resolves the       *)
(* user's references, and hands the backend expression to Expr::parse.     *)
(***************************************************************************)
NoTree == [kind |-> "Unset"]

(***************************************************************************)
(* The backend expressions handed to Expr::parse.  revset::parse, optimize *)
(* and to_backend_expression are jj_lib's; their result is an input here,  *)
(* drawn from the sets below.  Literal commit sets hold identifiers of the *)
(* table: 0 is root(), 1 is visible_heads(), the last is the reference     *)
(* inserted last.                                                          *)
(***************************************************************************)
Id(index) == ToLeBytes(index)
LastId(refs) == Id(Len(refs) - 1)
Ids(refs) == {Id(i) : i \in 0..(Len(refs) - 1)}

Generations == {GENERATION_RANGE_FULL, <<U64(0), U64(20000)>>, <<U64(0), U64(5)>>,
                <<U64(1), U64(2)>>}
ParentsRanges == {PARENTS_RANGE_FULL, <<U32(0), U32(1)>>}

HasConflict == [filter |-> "HasConflict"]
Signed == [filter |-> "Signed"]
FileAll == [filter |-> "File", files |-> "All"]
FileNone == [filter |-> "File", files |-> "None"]
ParentCount(range) == [filter |-> "ParentCount", range |-> range]
PFilter(f) == [kind |-> "PFilter", filter |-> f]
PDivergent(ids) == [kind |-> "PDivergent", visible_heads |-> ids]
PNotIn(p) == [kind |-> "PNotIn", expr |-> p]

Ancestors(heads, generation, parents_range) ==
    [kind |-> "Ancestors", heads |-> heads, generation |-> generation,
     parents_range |-> parents_range]
Range(roots, heads, generation, parents_range) ==
    [kind |-> "Range", roots |-> roots, heads |-> heads, generation |-> generation,
     parents_range |-> parents_range]
DagRange(roots, heads, generation_from_roots) ==
    [kind |-> "DagRange", roots |-> roots, heads |-> heads,
     generation_from_roots |-> generation_from_roots]
HeadsRange(roots, heads, parents_range, filter) ==
    [kind |-> "HeadsRange", roots |-> roots, heads |-> heads,
     parents_range |-> parents_range, filter |-> filter]
Reachable(sources, domain) ==
    [kind |-> "Reachable", sources |-> sources, domain |-> domain]
Counted(kind, candidates, count) ==
    [kind |-> kind, candidates |-> candidates, count |-> count]
FilterWithin(candidates, predicate) ==
    [kind |-> "FilterWithin", candidates |-> candidates, predicate |-> predicate]

\* every literal commit set of at most MaxCommits identifiers of the table
Literals(refs) ==
    UNION {{Commits(ids) : ids \in [1..n -> Ids(refs)]} : n \in 0..MaxCommits}

\* every binary nest of one kind over k operands, in every nesting shape
RECURSIVE Nests(_, _, _)
Nests(kind, k, operands) ==
    IF k = 1 THEN operands
    ELSE UNION {{Binary(kind, l, r) : l \in Nests(kind, i, operands),
                                      r \in Nests(kind, k - i, operands)}
                : i \in 1..(k - 1)}

OtherKind(kind) ==
    CASE kind = "Union" -> "Intersection"
      [] kind = "Intersection" -> "Coalesce"
      [] kind = "Coalesce" -> "Union"
      [] kind = "PUnion" -> "PIntersection"
      [] kind = "PIntersection" -> "PUnion"

\* operands of an Expr nest: a literal set of two, and a nest of another kind
\* that holds a literal set with visible_heads() and a nest of this kind
Operands(kind, refs) ==
    {Commits(<<Id(0), LastId(refs)>>),
     Binary(OtherKind(kind), Commits(<<Id(1), Id(0)>>),
            Binary(kind, Commits(<<LastId(refs)>>), Commits(<<Id(0)>>)))}

\* the nests of every kind, and the Union nests of two and three operands
\* over the empty literal set and a literal set of two, and of two operands
\* over the empty literal set and a literal set with visible_heads(): the
\* Union loop has an arm for literal sets
ExprNests(refs) ==
    UNION {Nests(kind, k, Operands(kind, refs)) :
           kind \in {"Union", "Intersection", "Coalesce"}, k \in 2..MaxOperands}
    \cup UNION {Nests("Union", k, {Commits(<<>>), Commits(<<Id(0), LastId(refs)>>)}) :
                k \in 2..3}
    \cup Nests("Union", 2, {Commits(<<>>), Commits(<<Id(1), Id(0)>>)})

\* operands of a Predicate nest: a Set that imports to an Expr::Union, and a
\* nest of the other kind that holds a filter and a nest of this kind
PredicateOperands(kind, refs) ==
    {PSet(Commits(<<Id(0), LastId(refs)>>)),
     Binary(OtherKind(kind), PNotIn(PDivergent(<<Id(1)>>)),
            Binary(kind, PFilter(FileAll),
                   PSet(Binary("Union", Commits(<<Id(0)>>), Commits(<<Id(1), Id(0)>>)))))}

PredicateNests(refs) ==
    UNION {Nests(kind, k, PredicateOperands(kind, refs)) :
           kind \in {"PUnion", "PIntersection"}, k \in 2..MaxPredicateOperands}

\* heads and roots of the range nodes: none(), root(), visible_heads() and
\* lists of them
Frontiers ==
    {Commits(<<>>), Commits(<<Id(0)>>), Commits(<<Id(1)>>),
     Binary("Coalesce", Commits(<<Id(0)>>), Commits(<<>>)),
     Binary("Coalesce", Commits(<<>>), Commits(<<>>)),
     Binary("Intersection", Commits(<<Id(0)>>), Commits(<<Id(1)>>)),
     Binary("Union", Commits(<<Id(0)>>), Commits(<<Id(1)>>)),
     Binary("Union", Commits(<<Id(0)>>), Commits(<<>>))}

RangeNodes ==
    {Ancestors(h, g, p) : h \in Frontiers, g \in Generations, p \in ParentsRanges}
    \cup {Range(r, h, g, p) : r \in Frontiers, h \in Frontiers, g \in Generations,
                              p \in ParentsRanges}
    \cup {DagRange(r, h, g) : r \in Frontiers, h \in Frontiers, g \in Generations}

\* range nodes that are Slow under Eager only, Slow under every context, and Fast
Walks ==
    {Ancestors(Commits(<<Id(1)>>), GENERATION_RANGE_FULL, PARENTS_RANGE_FULL),
     DagRange(Commits(<<Id(0)>>), Commits(<<Id(1)>>), GENERATION_RANGE_FULL),
     Ancestors(Commits(<<Id(0)>>), GENERATION_RANGE_FULL, PARENTS_RANGE_FULL)}

WalkIntersections ==
    UNION {Nests("Intersection", k, Walks) : k \in 2..MaxPredicateOperands}

\* generation ranges at the edge of large: of width 10000 and 9999 from 0,
\* across a limb, near u64::MAX and across the top limb, and inverted ones;
\* every range has end >= 1
EdgeGenerations ==
    {<<U64(0), U64(10000)>>, <<U64(0), U64(9999)>>,
     <<U64(60000), <<0, 0, 1, 4464>>>>, <<U64(60000), <<0, 0, 1, 4463>>>>,
     <<<<LimbMax, LimbMax, LimbMax, 55535>>, U64_MAX>>,
     <<<<LimbMax, LimbMax, LimbMax, 55536>>, U64_MAX>>,
     <<<<0, LimbMax, LimbMax, LimbMax>>, <<1, 0, 0, 9999>>>>,
     <<<<0, LimbMax, LimbMax, LimbMax>>, <<1, 0, 0, 9998>>>>,
     <<U64(20000), U64(5)>>, <<U64_MAX, U64(1)>>, <<<<0, 0, 1, 0>>, U64(65535)>>,
     <<<<1, 0, 0, 0>>, <<0, LimbMax, LimbMax, LimbMax>>>>}

\* the ancestors of visible_heads() within a range at the edge of large
Windows ==
    {Ancestors(Commits(<<Id(1)>>), g, PARENTS_RANGE_FULL) : g \in EdgeGenerations}

\* a Predicate Union and a Predicate Intersection over the same Set of a
\* Union, each inside the other
Spliced ==
    LET set == PSet(Binary("Union", Commits(<<Id(0)>>), Commits(<<Id(1)>>)))
    IN  {FilterWithin(Commits(<<Id(1)>>),
                      Binary(kind, set, Binary(OtherKind(kind), set, PFilter(HasConflict)))) :
             kind \in {"PUnion", "PIntersection"}}

\* the negation of a Predicate Union and of a Predicate Intersection
Negated ==
    {FilterWithin(Commits(<<Id(1)>>),
                  PNotIn(Binary(kind, PFilter(HasConflict), PFilter(Signed)))) :
         kind \in {"PUnion", "PIntersection"}}

\* a FilterWithin whose candidates are a Union that holds a Coalesce, all
\* over walks, and whose predicate is a Set of a walk
Threaded ==
    {FilterWithin(Binary("Union", w, Binary("Coalesce", w, v)), PSet(w)) :
         w \in Walks, v \in Walks}

\* every other node kind around the walks
Wrapped ==
    {Unary(kind, w) : kind \in {"Heads", "Roots", "ForkPoint", "Bisect"}, w \in Walks}
    \cup {Counted(kind, w, 1) : kind \in {"HasSize", "Latest"}, w \in Walks}
    \cup {Reachable(w, v) : w \in Walks, v \in Walks}
    \cup {Binary(kind, w, v) : kind \in {"Coalesce", "Union", "Difference"},
                               w \in Walks, v \in Walks}
    \cup {HeadsRange(Commits(<<Id(0)>>), w, p, f) :
              w \in Walks, p \in ParentsRanges,
              f \in {NoFilter, PFilter(HasConflict)} \cup {PSet(v) : v \in Walks}}
    \cup {FilterWithin(w, f) :
              w \in Walks,
              f \in {PSet(v) : v \in Walks} \cup {PNotIn(PSet(v)) : v \in Walks}
                   \cup {Binary(kind, PSet(v), PDivergent(<<Id(1)>>)) :
                             kind \in {"PUnion", "PIntersection"}, v \in Walks}}

\* the ranges of ParentCount: merges(), and ranges that share a bound with it,
\* hold one index, or are empty; a range has start <= end
ParentCounts ==
    {<<U32(2), U32_MAX>>, <<U32(2), U32(5)>>, <<U32(3), U32_MAX>>, <<U32(0), U32(2)>>,
     <<U32(1), U32(2)>>, <<U32(2), U32(2)>>, <<U32(2), <<LimbMax, LimbMax - 1>>>>}

Filters ==
    {PFilter(HasConflict), PFilter(Signed), PFilter(FileAll), PFilter(FileNone)}
    \cup {PFilter(ParentCount(range)) : range \in ParentCounts}

\* filters alone, negated once and twice, as the filter of a HeadsRange, in
\* a Predicate Union whose other operand brings no member, and merges() with
\* the file filter plain and negated
Filtered ==
    {FilterWithin(Commits(<<Id(1)>>), p) :
         p \in Filters \cup {PNotIn(f) : f \in Filters}
              \cup {PNotIn(PNotIn(f)) : f \in Filters}
              \cup {Binary("PUnion", PSet(Binary("Union", Commits(<<>>), Commits(<<>>))), f) :
                        f \in Filters}}
    \cup {HeadsRange(Commits(<<Id(0)>>), Commits(<<Id(1)>>), PARENTS_RANGE_FULL, f) :
              f \in Filters}
    \cup {FilterWithin(Commits(<<Id(1)>>),
                       Binary("PIntersection", PFilter(ParentCount(<<U32(2), U32_MAX>>)),
                              Binary("PIntersection", PFilter(FileAll),
                                     PNotIn(PFilter(FileAll)))))}

\* the expressions over root() and visible_heads() alone come from a query
\* without commit references: the table holds the two constants only
BackendExpressions(refs) ==
    Literals(refs)
    \cup ExprNests(refs)
    \cup {FilterWithin(Commits(<<Id(0)>>), p) : p \in PredicateNests(refs)}
    \cup (IF Len(refs) = 2
          THEN RangeNodes \cup WalkIntersections \cup Wrapped \cup Filtered \cup Threaded
               \cup Windows \cup Spliced \cup Negated
          ELSE {})

(***************************************************************************)
(* The run: parse() inserts root() and visible_heads(), resolves the       *)
(* user's references, and hands the backend expression to Expr::parse.     *)
(***************************************************************************)
NoCall == [outcome |-> "none"]

Init ==
    /\ pc = "root"
    /\ references = <<>>
    /\ inserted = <<>>
    /\ backend = NoTree
    /\ expr = NoTree
    /\ got = NoCall
    /\ context = "Lazy"
    /\ analyze = TRUE
    /\ output = <<>>
    /\ stack = <<>>
    /\ result = <<>>
    /\ pops = 0

\* parse.rs:63  reference_map.insert(ResolvedReference::root())
InsertRoot ==
    /\ pc = "root"
    /\ LET r == MapInsert(references, RootRef)
       IN  /\ references' = r.references
           /\ inserted' = Append(inserted, [reference |-> RootRef, id |-> r.id])
    /\ pc' = "visible_heads"
    /\ UNCHANGED <<backend, expr, got, context, analyze, output, stack, result, pops>>

\* parse.rs:66  reference_map.insert(ResolvedReference::visible_heads())
InsertVisibleHeads ==
    /\ pc = "visible_heads"
    /\ LET r == MapInsert(references, VisibleHeadsRef)
       IN  /\ references' = r.references
           /\ inserted' = Append(inserted, [reference |-> VisibleHeadsRef, id |-> r.id])
    /\ pc' = "resolve"
    /\ UNCHANGED <<backend, expr, got, context, analyze, output, stack, result, pops>>

\* parse.rs:180-182  reference_map.insert(resolved) for a commit reference
InsertResolved ==
    /\ pc = "resolve"
    /\ Len(inserted) < 2 + MaxInserts
    /\ \E reference \in UserReferences :
         LET r == MapInsert(references, reference)
         IN  /\ references' = r.references
             /\ inserted' = Append(inserted, [reference |-> reference, id |-> r.id])
    /\ UNCHANGED <<pc, backend, expr, got, context, analyze, output, stack, result, pops>>

\* parse.rs:91-92  the resolved expression, with the identifiers inserted,
\* is consumed by optimize and to_backend_expression
ToBackendExpression ==
    /\ pc = "resolve"
    /\ \E b \in BackendExpressions(references) : backend' = b
    /\ inserted' = <<>>
    /\ pc' = "import"
    /\ UNCHANGED <<references, expr, got, context, analyze, output, stack, result, pops>>

\* parse.rs:93  Expr::parse(backend, reference_map)
Import ==
    /\ pc = "import"
    /\ ~ParsePanics(backend, references)
    /\ expr' = ExprParse(backend, references)
    /\ pc' = "print"
    /\ UNCHANGED <<references, inserted, backend, got, context, analyze, output, stack, result, pops>>

\* main.rs:204  pretty_print(&expr, args.context, !args.no_analyze); the two
\* arguments are read here for the first time
PrettyPrint ==
    /\ pc = "print"
    /\ \E c \in ArgContexts, a \in BOOLEAN :
         /\ context' = c
         /\ analyze' = a
         /\ output' = pretty_print(expr, c, a)
    /\ pc' = "done"
    /\ UNCHANGED <<references, inserted, backend, expr, got, stack, result, pops>>

Next ==
    \/ InsertRoot
    \/ InsertVisibleHeads
    \/ InsertResolved
    \/ ToBackendExpression
    \/ Import
    \/ PrettyPrint

Spec == Init /\ [][Next]_vars

(***************************************************************************)
(* The run with a backend expression that holds an identifier no insert    *)
(* returned: the case the expect of ReferenceMap::get is there for.        *)
(***************************************************************************)
StrayId(refs) == ToLeBytes(Len(refs))

Strays(refs) ==
    LET stray == StrayId(refs)
    IN  {Commits(<<stray>>), Commits(<<Id(0), stray>>), Commits(<<stray, Id(1)>>),
         Commits(<<Id(1), stray>>),
         Binary("Union", Commits(<<Id(0)>>), Commits(<<stray>>)),
         Binary("Union", Commits(<<Id(1), stray>>), Commits(<<Id(0)>>)),
         Binary("Intersection", Commits(<<Id(0), stray>>), Commits(<<Id(1)>>)),
         Ancestors(Commits(<<stray>>), GENERATION_RANGE_FULL, PARENTS_RANGE_FULL),
         FilterWithin(Commits(<<Id(0)>>), PDivergent(<<stray>>)),
         FilterWithin(Commits(<<Id(0)>>), PNotIn(PSet(Commits(<<Id(1), stray>>)))),
         FilterWithin(Commits(<<Id(0)>>),
                      Binary("PUnion", PFilter(HasConflict), PSet(Commits(<<Id(0), stray>>))))}

\* parse.rs:91-92  the backend expression, with an identifier that was not
\* threaded through the table
ToStrayExpression ==
    /\ pc = "resolve"
    /\ \E b \in Strays(references) : backend' = b
    /\ inserted' = <<>>
    /\ pc' = "import"
    /\ UNCHANGED <<references, expr, got, context, analyze, output, stack, result, pops>>

\* parse.rs:93  Expr::parse panics in reference_map.get: the run ends
ImportAbort ==
    /\ pc = "import"
    /\ ParsePanics(backend, references)
    /\ pc' = "aborted"
    /\ UNCHANGED <<references, inserted, backend, expr, got, context, analyze, output,
                   stack, result, pops>>

StrayNext ==
    \/ Next
    \/ ToStrayExpression
    \/ ImportAbort

StraySpec == Init /\ [][StrayNext]_vars

(***************************************************************************)
(* The ReferenceMap on its own: insert and get called in any order, get    *)
(* also with identifiers the table has not handed out.                     *)
(***************************************************************************)
MapTexts == {RootRef, VisibleHeadsRef, WorkingCopyRef}

\* identifiers handed to get: of every index an insert can have returned
\* and one more, and one of four bytes
GetIds == {ToLeBytes(index) : index \in 0..(2 + MaxInserts)} \cup {<<1, 0, 0, 0>>}

MapInit ==
    /\ pc = "map"
    /\ references = <<>>
    /\ inserted = <<>>
    /\ backend = NoTree
    /\ expr = NoTree
    /\ got = NoCall
    /\ context = "Lazy"
    /\ analyze = TRUE
    /\ output = <<>>
    /\ stack = <<>>
    /\ result = <<>>
    /\ pops = 0

\* parse.rs:515-522  ReferenceMap::insert
InsertCall ==
    /\ pc = "map"
    /\ Len(inserted) < 2 + MaxInserts
    /\ \E reference \in MapTexts :
         LET r == MapInsert(references, reference)
         IN  /\ references' = r.references
             /\ inserted' = Append(inserted, [reference |-> reference, id |-> r.id])
    /\ UNCHANGED <<pc, backend, expr, got, context, analyze, output, stack, result, pops>>

\* parse.rs:524-536  ReferenceMap::get returns the reference
GetCall ==
    /\ pc = "map"
    /\ \E commit_id \in GetIds :
         /\ ~GetPanicsOnLength(commit_id)
         /\ ~GetPanics(references, commit_id)
         /\ got' = [outcome |-> "value", id |-> commit_id, calls |-> Len(inserted),
                    reference |-> MapGet(references, commit_id)]
    /\ UNCHANGED <<pc, references, inserted, backend, expr, context, analyze, output, stack, result, pops>>

\* parse.rs:524-536  ReferenceMap::get panics in one of its two expect calls:
\* the run ends
GetAbort ==
    /\ pc = "map"
    /\ \E commit_id \in GetIds :
         /\ GetPanicsOnLength(commit_id) \/ GetPanics(references, commit_id)
         /\ got' = [outcome |-> "panic", id |-> commit_id, calls |-> Len(inserted)]
    /\ pc' = "aborted"
    /\ UNCHANGED <<references, inserted, backend, expr, context, analyze, output, stack, result, pops>>

MapNext ==
    \/ InsertCall
    \/ GetCall
    \/ GetAbort

MapSpec == MapInit /\ [][MapNext]_vars

(***************************************************************************)
(* The work-stack loops of Expr::parse and Predicate::parse, one iteration *)
(* at a time, for a nest at the root of the tree being imported.  pops     *)
(* counts the iterations: each one pops one pending node.                  *)
(***************************************************************************)
LoopReferences == <<RootRef, VisibleHeadsRef, WorkingCopyRef>>

\* the body of while let Some(next) = stack.pop() in the Coalesce, Union and
\* Intersection arms of Expr::parse: the stack and the result after it
ExprLoopBody(kind, next, rest, flat, refs) ==
    IF next.kind = kind
    THEN [stack |-> PushOperands(rest, next.expr1, next.expr2), result |-> flat]
    ELSE IF kind = "Union" /\ ExpandsInUnion(next, refs)
    THEN [stack |-> rest, result |-> flat \o References(next.ids, refs)]
    ELSE [stack |-> rest, result |-> Append(flat, ExprParse(next, refs))]

\* the body of the loop in the Union and Intersection arms of Predicate::parse
PredicateLoopBody(kind, next, rest, flat, refs) ==
    IF next.kind = kind
    THEN [stack |-> PushOperands(rest, next.expr1, next.expr2), result |-> flat]
    ELSE IF kind = "PUnion" /\ next.kind = "PSet"
    THEN [stack |-> rest, result |-> flat \o SpliceSet(ExprParse(next.expr, refs))]
    ELSE [stack |-> rest, result |-> Append(flat, PredicateParse(next, refs))]

LoopInit ==
    /\ pc = "import"
    /\ references = LoopReferences
    /\ inserted = <<>>
    /\ backend \in ExprNests(LoopReferences) \cup PredicateNests(LoopReferences)
    /\ expr = NoTree
    /\ got = NoCall
    /\ context = "Lazy"
    /\ analyze = TRUE
    /\ output = <<>>
    /\ stack = <<>>
    /\ result = <<>>
    /\ pops = 0

\* let mut result = Vec::new(); let mut stack = vec![expr2, expr1];
LoopEnter ==
    /\ pc = "import"
    /\ stack' = <<backend.expr2, backend.expr1>>
    /\ result' = <<>>
    /\ pc' = "loop"
    /\ UNCHANGED <<references, inserted, backend, expr, got, context, analyze, output, pops>>

\* one iteration: stack.pop() returns Some(next)
LoopIterate ==
    /\ pc = "loop"
    /\ stack # <<>>
    /\ LET next == stack[Len(stack)]
           rest == SubSeq(stack, 1, Len(stack) - 1)
           after == IF backend.kind \in {"PUnion", "PIntersection"}
                    THEN PredicateLoopBody(backend.kind, next, rest, result, references)
                    ELSE ExprLoopBody(backend.kind, next, rest, result, references)
       IN  /\ stack' = after.stack
           /\ result' = after.result
    /\ pops' = pops + 1
    /\ UNCHANGED <<pc, references, inserted, backend, expr, got, context, analyze, output>>

\* stack.pop() returns None: Self::Union(result), and likewise for the others
LoopExit ==
    /\ pc = "loop"
    /\ stack = <<>>
    /\ expr' = List(backend.kind, result)
    /\ pc' = "print"
    /\ UNCHANGED <<references, inserted, backend, got, context, analyze, output,
                   stack, result, pops>>

LoopNext ==
    \/ LoopEnter
    \/ LoopIterate
    \/ LoopExit

\* the import is straight-line code of one thread: it takes its next step
LoopSpec == LoopInit /\ [][LoopNext]_vars /\ WF_vars(LoopNext)

(***************************************************************************)
(* Helpers of the properties: the nodes of an imported model.              *)
(***************************************************************************)
ListKinds == {"Union", "Intersection", "Coalesce", "PUnion", "PIntersection"}
PredicateKinds == {"PFilter", "PDivergent", "PSet", "PNotIn", "PUnion", "PIntersection"}

SeqRange(q) == {q[i] : i \in 1..Len(q)}

Children(n) ==
    CASE n.kind \in ListKinds -> n.exprs
      [] n.kind = "Ancestors" -> <<n.heads>>
      [] n.kind \in {"Range", "DagRange"} -> <<n.roots, n.heads>>
      [] n.kind = "Reachable" -> <<n.sources, n.domain>>
      [] n.kind \in {"Heads", "Roots", "ForkPoint", "Bisect", "PSet", "PNotIn"} -> <<n.expr>>
      [] n.kind = "HeadsRange" ->
            IF n.filter = NoFilter THEN <<n.roots, n.heads>>
            ELSE <<n.roots, n.heads, n.filter>>
      [] n.kind \in {"HasSize", "Latest"} -> <<n.candidates>>
      [] n.kind = "FilterWithin" -> <<n.candidates, n.predicate>>
      [] n.kind = "Difference" -> <<n.expr1, n.expr2>>
      [] n.kind = "PDivergent" -> <<n.visible_heads>>
      [] OTHER -> <<>>

RECURSIVE Nodes(_)
Nodes(n) == {n} \cup UNION {Nodes(c) : c \in SeqRange(Children(n))}

\* the Expr and Predicate nodes of the imported expression, once imported
Imported == IF pc = "print" THEN Nodes(expr) ELSE {}
ImportedExprs == {n \in Imported : n.kind \notin PredicateKinds}

RECURSIVE Concat(_)
Concat(seqs) == IF seqs = <<>> THEN <<>> ELSE Head(seqs) \o Concat(Tail(seqs))

\* the operands of a binary nest of one kind, left to right
RECURSIVE InOrderLeaves(_, _)
InOrderLeaves(kind, b) ==
    IF b.kind = kind
    THEN InOrderLeaves(kind, b.expr1) \o InOrderLeaves(kind, b.expr2)
    ELSE <<b>>

RECURSIVE RightLeaning(_, _)
RightLeaning(kind, leaves) ==
    IF Len(leaves) = 1 THEN leaves[1]
    ELSE Binary(kind, Head(leaves), RightLeaning(kind, Tail(leaves)))

RECURSIVE LeftLeaning(_, _)
LeftLeaning(kind, leaves) ==
    IF Len(leaves) = 1 THEN leaves[1]
    ELSE Binary(kind, LeftLeaning(kind, SubSeq(leaves, 1, Len(leaves) - 1)),
                leaves[Len(leaves)])

\* what one operand alone brings to the flat list of its nest
Contribution(kind, leaf) ==
    IF kind = "Union" /\ leaf.kind = "Commits"
       /\ \A i \in 1..Len(leaf.ids) : references[FromLeBytes(leaf.ids[i]) + 1] # VisibleHeadsRef
    THEN [i \in 1..Len(leaf.ids) |-> Reference(references[FromLeBytes(leaf.ids[i]) + 1])]
    ELSE <<ExprParse(leaf, references)>>

IsNest == pc = "print" /\ backend.kind \in {"Union", "Intersection", "Coalesce"}

(***************************************************************************)
(* C1: a Union / Intersection / Coalesce nest imports to the flat list of  *)
(* what its operands bring, in the left-to-right order of the operands,    *)
(* and so to the same model as the left-leaning and the right-leaning nest *)
(* over the same operands.                                                 *)
(***************************************************************************)
C1_FlatteningKeepsOrder ==
    IsNest =>
        LET leaves == InOrderLeaves(backend.kind, backend)
        IN  /\ expr.kind = backend.kind
            /\ expr.exprs =
                 Concat([i \in 1..Len(leaves) |-> Contribution(backend.kind, leaves[i])])
            /\ expr = ExprParse(RightLeaning(backend.kind, leaves), references)
            /\ expr = ExprParse(LeftLeaning(backend.kind, leaves), references)

\* a nest of four operands that leans neither way, imported to three or
\* more members that are not all alike
C1_Witness ==
    /\ IsNest
    /\ Len(InOrderLeaves(backend.kind, backend)) = 4
    /\ backend # RightLeaning(backend.kind, InOrderLeaves(backend.kind, backend))
    /\ backend # LeftLeaning(backend.kind, InOrderLeaves(backend.kind, backend))
    /\ Len(expr.exprs) >= 3
    /\ expr.exprs[1] # expr.exprs[Len(expr.exprs)]

(***************************************************************************)
(* C2: in an imported model no Union, Intersection or Coalesce, of Expr or *)
(* of Predicate, has a direct member of its own variant, at any depth.     *)
(***************************************************************************)
C2_NoSameKindMember ==
    \A n \in Imported :
        n.kind \in ListKinds => \A i \in 1..Len(n.exprs) : n.exprs[i].kind # n.kind

\* a Predicate list inside a Predicate list inside a Predicate list, with an
\* Expr::Union below
C2_Witness ==
    /\ pc = "print"
    /\ \E n \in Imported : \E i \in 1..Len(Children(n)) :
          /\ n.kind \in ListKinds
          /\ LET m == Children(n)[i]
             IN  /\ m.kind \in ListKinds
                 /\ \E j \in 1..Len(m.exprs) : m.exprs[j].kind = n.kind
    /\ \E n \in Imported : n.kind = "PIntersection"
    /\ \E n \in Imported : n.kind = "Union"

(***************************************************************************)
(* C3: a literal commit set imports to None when empty, to the Reference   *)
(* of its element when it has one, to the visible-heads-or-referenced      *)
(* Reference when it has two or more and one is visible_heads(), and       *)
(* otherwise to a Union of one Reference per element, in order.            *)
(***************************************************************************)
TextOf(commit_id) == references[FromLeBytes(commit_id) + 1]

C3_LiteralImport ==
    (pc = "print" /\ backend.kind = "Commits") =>
        LET ids == backend.ids
        IN  CASE Len(ids) = 0 -> expr = None
              [] Len(ids) = 1 -> expr = Reference(TextOf(ids[1]))
              [] Len(ids) >= 2 /\ (\E i \in 1..Len(ids) : TextOf(ids[i]) = VisibleHeadsRef) ->
                    expr = Reference(VisibleHeadsOrReferencedRef)
              [] OTHER ->
                    /\ expr.kind = "Union"
                    /\ Len(expr.exprs) = Len(ids)
                    /\ \A i \in 1..Len(ids) : expr.exprs[i] = Reference(TextOf(ids[i]))

\* the set {visible_heads()} imported as the Reference visible_heads()
C3_Witness ==
    /\ pc = "print"
    /\ backend.kind = "Commits"
    /\ Len(backend.ids) = 1
    /\ expr = Reference(VisibleHeadsRef)

(***************************************************************************)
(* C4: is_root_or_none is true of None and of the root Reference, of a     *)
(* Coalesce or Union exactly when all members satisfy it, of an            *)
(* Intersection exactly when some member does, and false of the rest.      *)
(***************************************************************************)
C4_RootOrNone ==
    /\ \A n \in ImportedExprs :
          CASE n.kind = "None" -> is_root_or_none(n)
            [] n.kind = "Reference" -> is_root_or_none(n) <=> (n.reference = "root()")
            [] n.kind \in {"Coalesce", "Union"} ->
                  is_root_or_none(n) <=> \A i \in 1..Len(n.exprs) : is_root_or_none(n.exprs[i])
            [] n.kind = "Intersection" ->
                  is_root_or_none(n) <=> \E i \in 1..Len(n.exprs) : is_root_or_none(n.exprs[i])
            [] OTHER -> ~is_root_or_none(n)
    /\ ~is_root_or_none(Reference("visible_heads()"))
    /\ is_root_or_none(List("Union", <<Reference("root()"), None>>))
    /\ \A n \in ImportedExprs :
          /\ ~is_root_or_none(n) => ~is_root_or_none(List("Union", <<Reference("root()"), n>>))
          /\ is_root_or_none(List("Intersection", <<Reference("root()"), n>>))

\* an imported Intersection that is root-or-none with a member that is not
C4_Witness ==
    \E n \in ImportedExprs :
        /\ n.kind = "Intersection"
        /\ is_root_or_none(n)
        /\ \E i \in 1..Len(n.exprs) : ~is_root_or_none(n.exprs[i])

(***************************************************************************)
(* C5: an Ancestors node is Slow exactly under Eager with heads that are   *)
(* not root-or-none and a large generation range; the parent-index range   *)
(* has no part in it.                                                      *)
(***************************************************************************)
C5_AncestorsCost ==
    /\ \A n \in ImportedExprs : \A c \in Contexts :
          n.kind = "Ancestors" =>
              /\ (ExprCost(n, c) = "Slow") <=>
                     (c = "Eager" /\ ~is_root_or_none(n.heads) /\ is_large_range(n.generation))
              /\ ExprCost(n, c) \in {"Slow", "Fast"}
              /\ \A p \in ParentsRanges :
                     ExprCost([n EXCEPT !.parents_range = p], c) = ExprCost(n, c)
    /\ LET heads == Reference("visible_heads()")
       IN  /\ ExprCost(Ancestors(heads, <<U64(0), U64(20000)>>, PARENTS_RANGE_FULL), "Eager") = "Slow"
           /\ ExprCost(Ancestors(heads, <<U64(0), U64(20000)>>, PARENTS_RANGE_FULL), "Lazy") = "Fast"
           /\ ExprCost(Ancestors(heads, <<U64(0), U64(5)>>, PARENTS_RANGE_FULL), "Eager") = "Fast"

\* an imported Ancestors over visible_heads() that is Slow under Eager only
C5_Witness ==
    /\ pc = "print"
    /\ expr.kind = "Ancestors"
    /\ expr.heads = Reference(VisibleHeadsRef)
    /\ expr.parents_range # PARENTS_RANGE_FULL
    /\ ExprCost(expr, "Eager") = "Slow"
    /\ ExprCost(expr, "Lazy") = "Fast"

(***************************************************************************)
(* C6: a Range node is Slow exactly under Eager with roots that are        *)
(* root-or-none, heads that are not, and a large generation range.         *)
(***************************************************************************)
C6_RangeCost ==
    \A n \in ImportedExprs : \A c \in Contexts :
        n.kind = "Range" =>
            /\ (ExprCost(n, c) = "Slow") <=>
                   /\ c = "Eager"
                   /\ is_root_or_none(n.roots)
                   /\ ~is_root_or_none(n.heads)
                   /\ is_large_range(n.generation)
            /\ ExprCost(n, c) \in {"Slow", "Fast"}
            /\ ~is_root_or_none(n.roots) => ExprCost(n, c) = "Fast"

\* an imported Range from root() that is Slow under Eager
C6_Witness ==
    /\ pc = "print"
    /\ expr.kind = "Range"
    /\ expr.roots = Reference(RootRef)
    /\ ExprCost(expr, "Eager") = "Slow"
    /\ ExprCost(expr, "Predicate") = "Fast"

(***************************************************************************)
(* C7: a DagRange node is Slow exactly when its roots are not None and are *)
(* root-or-none, its heads are not root-or-none and generation_from_roots  *)
(* is large, under every context alike.                                    *)
(***************************************************************************)
C7_DagRangeCost ==
    \A n \in ImportedExprs : \A c \in Contexts :
        n.kind = "DagRange" =>
            /\ (ExprCost(n, c) = "Slow") <=>
                   /\ n.roots # None
                   /\ is_root_or_none(n.roots)
                   /\ ~is_root_or_none(n.heads)
                   /\ is_large_range(n.generation_from_roots)
            /\ ExprCost(n, c) = ExprCost(n, "Eager")
            /\ n.roots = None => ExprCost(n, c) = "Fast"

\* an imported DagRange that is Slow under Lazy and Predicate
C7_Witness ==
    /\ pc = "print"
    /\ expr.kind = "DagRange"
    /\ expr.roots # Reference(RootRef)
    /\ ExprCost(expr, "Lazy") = "Slow"
    /\ ExprCost(expr, "Predicate") = "Slow"

(***************************************************************************)
(* C8: an Intersection is Slow under a context exactly when every member   *)
(* is Slow under that same context.                                        *)
(***************************************************************************)
C8_IntersectionCost ==
    \A n \in ImportedExprs : \A c \in Contexts :
        n.kind = "Intersection" =>
            (ExprCost(n, c) = "Slow") <=>
                \A i \in 1..Len(n.exprs) : ExprCost(n.exprs[i], c) = "Slow"

\* an imported Intersection that is Slow under Eager and Fast under Lazy
C8_Witness ==
    /\ pc = "print"
    /\ expr.kind = "Intersection"
    /\ Len(expr.exprs) >= 2
    /\ ExprCost(expr, "Eager") = "Slow"
    /\ ExprCost(expr, "Lazy") = "Fast"
    /\ \E i \in 1..Len(expr.exprs) : ExprCost(expr.exprs[i], "Lazy") = "Slow"

(***************************************************************************)
(* C9: every node other than Ancestors, Range, DagRange and Intersection   *)
(* is Fast under every context whatever its children cost, the number and  *)
(* range leaves included; a Predicate::Set costs what its Expr costs under *)
(* the Predicate context.                                                  *)
(***************************************************************************)
NodeCost(n, c) ==
    IF n.kind \in PredicateKinds THEN PredicateCost(n, c) ELSE ExprCost(n, c)

C9_EverythingElseFast ==
    \A n \in Imported : \A c \in Contexts :
        /\ n.kind \notin {"Ancestors", "Range", "DagRange", "Intersection", "PSet"} =>
               NodeCost(n, c) = "Fast"
        /\ n.kind = "PSet" => NodeCost(n, c) = ExprCost(n.expr, "Predicate")
        /\ n.kind \in {"Ancestors", "Range"} =>
               LeafCost(n.generation, c) = "Fast" /\ LeafCost(n.parents_range, c) = "Fast"
        /\ n.kind = "DagRange" => LeafCost(n.generation_from_roots, c) = "Fast"
        /\ n.kind \in {"HasSize", "Latest"} => LeafCost(n.count, c) = "Fast"
        /\ n.kind = "Reference" => LeafCost(n.reference, c) = "Fast"

\* a FilterWithin that is Fast under Eager over candidates that are Slow under
\* Eager, with a Set predicate that is Fast over an Expr that is Slow under Eager
C9_Witness ==
    /\ pc = "print"
    /\ expr.kind = "FilterWithin"
    /\ ExprCost(expr.candidates, "Eager") = "Slow"
    /\ ExprCost(expr, "Eager") = "Fast"
    /\ expr.predicate.kind = "PSet"
    /\ ExprCost(expr.predicate.expr, "Eager") = "Slow"
    /\ PredicateCost(expr.predicate, "Eager") = "Fast"

(***************************************************************************)
(* C10: an insert of a text already in the table returns the identifier    *)
(* the text was given first and adds no entry; an insert of a new text     *)
(* returns the number of distinct texts inserted before it.                *)
(***************************************************************************)
InsertedBefore(k) == {inserted[j].reference : j \in 1..(k - 1)}

C10_InsertDedup ==
    /\ \A k \in 1..Len(inserted) :
          LET t == inserted[k].reference
          IN  IF t \in InsertedBefore(k)
              THEN \E j \in 1..(k - 1) :
                      /\ inserted[j].reference = t
                      /\ t \notin InsertedBefore(j)
                      /\ inserted[k].id = inserted[j].id
              ELSE /\ FromLeBytes(inserted[k].id) = Cardinality(InsertedBefore(k))
                   /\ Len(inserted[k].id) = 8
    /\ \A j, k \in 1..Len(inserted) :
          inserted[j].reference # inserted[k].reference => inserted[j].id # inserted[k].id
    /\ pc \in {"root", "visible_heads", "resolve"} =>
          Len(references) = Cardinality(InsertedBefore(Len(inserted) + 1))

\* root() inserted a second time, after three distinct texts
C10_Witness ==
    /\ Len(inserted) = 4
    /\ Len(references) = 3
    /\ inserted[4].reference = RootRef
    /\ inserted[4].id = inserted[1].id
    /\ FromLeBytes(inserted[3].id) = 2

(***************************************************************************)
(* C11: get of an identifier an earlier insert returned gives the text     *)
(* that insert was called with, whatever was inserted in between; get of   *)
(* an identifier whose index is not below the number of entries ends the   *)
(* run, and get has no third outcome.                                      *)
(***************************************************************************)
C11_GetInvertsInsert ==
    /\ \A k \in 1..Len(inserted) :
          /\ ~GetPanics(references, inserted[k].id)
          /\ ~GetPanicsOnLength(inserted[k].id)
          /\ MapGet(references, inserted[k].id) = inserted[k].reference
    /\ got.outcome \in {"none", "value", "panic"}
    /\ got.outcome = "value" =>
          /\ \E k \in 1..got.calls : inserted[k].id = got.id
          /\ \A k \in 1..got.calls :
                inserted[k].id = got.id => got.reference = inserted[k].reference
    /\ got.outcome = "panic" =>
          /\ pc = "aborted"
          /\ \A k \in 1..Len(inserted) : inserted[k].id # got.id
          /\ Len(got.id) = 8 => FromLeBytes(got.id) >= Len(references)
    /\ (pc = "map" /\ got.outcome # "none") =>
          FromLeBytes(got.id) < Cardinality({inserted[k].reference : k \in 1..got.calls})
    /\ pc = "aborted" => got.outcome = "panic"

\* get returned the text of the first insert after two later inserts, one of
\* them of a new text
C11_Witness ==
    /\ got.outcome = "value"
    /\ got.calls = 3
    /\ Len(references) = 2
    /\ got.id = inserted[1].id
    /\ got.reference = inserted[1].reference

\* get of the identifier one past the last entry ended the run
C11_WitnessAbort ==
    /\ pc = "aborted"
    /\ Len(references) = 2
    /\ FromLeBytes(got.id) = 2

(***************************************************************************)
(* Helpers of the properties: the visits of the renderer and the lines of  *)
(* the output.                                                             *)
(***************************************************************************)
Visit(tree, c, depth, label, parent) ==
    [tree |-> tree, context |-> c, depth |-> depth, label |-> label, parent |-> parent]

\* the root and the nodes below it in depth-first pre-order, children in
\* entry order, each with the context and label its parent's entry declares
\* and the name of its parent's entry
RECURSIVE Plan(_, _, _, _, _)
Plan(tree, c, depth, label, parent) ==
    LET entry == Entry(tree, c)
        children == entry.children
    IN  <<Visit(tree, c, depth, label, parent)>>
        \o Concat([i \in 1..Len(children) |->
                     Plan(children[i].tree, children[i].context, depth + 1,
                          children[i].label, entry.name)])

Rendered == pc = "done"
Visits == IF Rendered THEN Plan(expr, context, 0, NoLabel, "") ELSE <<>>

IsClosing(line) == Len(line) = 2 /\ line[2].dimmed /\ line[2].text \in {"}", ")", "]"}
IsNodeLine(line) == ~IsClosing(line)
NodeLines == SelectSeq(output, IsNodeLine)

IsMarker(token) == token.text = "(EXPENSIVE)" /\ token.colour = "bright_red" /\ token.bold

\* the parts of the line of a node: the root's line has no indentation
Shown(line, root) ==
    LET body == IF root THEN line ELSE Tail(line)
        labeled == body[1].dimmed
        unlabeled == IF labeled THEN SubSeq(body, 3, Len(body)) ELSE body
        marked == IsMarker(unlabeled[1])
        rest == IF marked THEN SubSeq(unlabeled, 3, Len(unlabeled)) ELSE unlabeled
    IN  [indent |-> IF root THEN "" ELSE line[1].text,
         label |-> IF labeled THEN body[1].text \o body[2].text ELSE "",
         marker |-> marked,
         space |-> IF marked THEN unlabeled[2].text ELSE "",
         name |-> rest[1],
         open |-> IF Len(rest) >= 2 THEN rest[2].text ELSE "",
         pieces |-> Len(rest)]

\* a function over 1..n as the tuple of its values
Tuple(f, n) == SubSeq(f, 1, n)

\* the visits with the lines of the output they wrote
VisitLines ==
    LET visits == Visits
        lines == NodeLines
    IN  Tuple([i \in 1..Len(visits) |->
                  [visit |-> visits[i], line |-> Shown(lines[i], i = 1),
                   entry |-> Entry(visits[i].tree, visits[i].context)]], Len(visits))

(***************************************************************************)
(* C12: a ParentCount filter over 2..u32::MAX renders as merges() and over *)
(* any other range as parent_count(<range>); File over the universal file  *)
(* set renders as ~empty() alone and as empty() as the direct operand of   *)
(* NotIn; HasConflict and Signed render as conflicts() and signed().       *)
(***************************************************************************)
RangeText(range) ==
    CASE range = <<U32(2), U32(5)>> -> "2..5"
      [] range = <<U32(3), U32_MAX>> -> "3.."
      [] range = <<U32(0), U32(2)>> -> "0..2"
      [] range = <<U32(1), U32(2)>> -> "1"
      [] range = <<U32(2), U32(2)>> -> "empty range"
      [] range = <<U32(2), <<LimbMax, LimbMax - 1>>>> -> "2..4294967294"

FilterText(filter) ==
    CASE filter.filter = "ParentCount" ->
            IF filter.range[1] = <<0, 2>> /\ filter.range[2] = <<65535, 65535>>
            THEN "merges()"
            ELSE "parent_count(" \o RangeText(filter.range) \o ")"
      [] filter.filter = "HasConflict" -> "conflicts()"
      [] filter.filter = "Signed" -> "signed()"
      [] filter.filter = "File" /\ filter.files = "All" -> "~empty()"
      [] OTHER -> "other"

IsAtomic(filter) == FilterText(filter) # "other"

SomeLabeled(children) == \E j \in 1..Len(children) : children[j].label # <<>>

OpenCount(shown, text) == Cardinality({i \in 1..Len(shown) : shown[i].line.open = text})
CloseCount(text) ==
    Cardinality({k \in 1..Len(output) : IsClosing(output[k]) /\ output[k][2].text = text})

C13_BracketsFromChildren ==
    LET shown == VisitLines
    IN  /\ \A i \in 1..Len(shown) :
              LET children == shown[i].entry.children
                  line == shown[i].line
                  tree == shown[i].visit.tree
              IN  /\ Len(children) = 0 => line.open = "" /\ line.pieces = 1
                  /\ SomeLabeled(children) => line.open = " {"
                  /\ (Len(children) = 1 /\ ~SomeLabeled(children)) => line.open = "("
                  /\ (Len(children) >= 2 /\ ~SomeLabeled(children)) => line.open = " ["
                  /\ (tree.kind \in ListKinds /\ Len(tree.exprs) = 1) => line.open = "("
        /\ CloseCount("}") = OpenCount(shown, " {")
        /\ CloseCount(")") = OpenCount(shown, "(")
        /\ CloseCount("]") = OpenCount(shown, " [")
        /\ Len(output) = Len(shown) + Cardinality({i \in 1..Len(shown) : shown[i].line.open # ""})

\* an output with a Predicate Union of one member in parentheses, a node in
\* braces with a single child, and a node in square brackets
C13_Witness ==
    /\ Rendered
    /\ LET shown == VisitLines
       IN  /\ \E i \in 1..Len(shown) :
                 /\ shown[i].visit.tree.kind = "PUnion"
                 /\ Len(shown[i].entry.children) = 1
                 /\ shown[i].line.open = "("
           /\ \E i \in 1..Len(shown) :
                 /\ Len(shown[i].entry.children) = 2
                 /\ shown[i].line.open = " {"

(***************************************************************************)
(* C14: with analyze on, the line of a node carries the (EXPENSIVE) marker *)
(* exactly when the node is Slow under the context the renderer was given  *)
(* for it: the context of the run for the root, the context the parent's   *)
(* entry declares for a child; with analyze off no line carries it.        *)
(***************************************************************************)
C14_MarkerFollowsAmbientCost ==
    LET shown == VisitLines
    IN  /\ \A i \in 1..Len(shown) :
              /\ shown[i].line.marker <=>
                     (analyze /\ NodeCost(shown[i].visit.tree, shown[i].visit.context) = "Slow")
              /\ shown[i].line.marker => shown[i].line.space = " "
        /\ Rendered => shown[1].visit.context = context
        /\ ~analyze =>
              \A k \in 1..Len(output) : \A t \in 1..Len(output[k]) :
                  output[k][t].text # "(EXPENSIVE)"

\* under Eager with analyze on: a marked root, a marked child, and a child
\* without marker that is Slow under Eager and was handed another context
C14_Witness ==
    /\ Rendered
    /\ analyze
    /\ context = "Eager"
    /\ LET shown == VisitLines
       IN  /\ shown[1].line.marker
           /\ \E i \in 2..Len(shown) : shown[i].line.marker
           /\ \E i \in 2..Len(shown) :
                 /\ ~shown[i].line.marker
                 /\ NodeCost(shown[i].visit.tree, "Eager") = "Slow"

(***************************************************************************)
(* C15: the colour of a name follows from analyze and the effective        *)
(* context of the node: with analyze on one colour each for Eager, Lazy    *)
(* and Predicate and none for Resolved; with analyze off one colour for    *)
(* every context but Resolved and none for Resolved.  A Union of two       *)
(* distinct references under Lazy with analyze off is a square-bracketed   *)
(* node with two plain child lines without marker.                         *)
(***************************************************************************)
ColourOf(a, c) ==
    IF a THEN CASE c = "Eager" -> "bright_blue"
                [] c = "Lazy" -> "bright_cyan"
                [] c = "Predicate" -> "bright_magenta"
                [] c = "Resolved" -> "none"
    ELSE IF c = "Resolved" THEN "none" ELSE "blue"

C15_ColourFollowsEffectiveContext ==
    LET shown == VisitLines
    IN  /\ \A i \in 1..Len(shown) :
              shown[i].line.name.colour = ColourOf(analyze, shown[i].entry.context)
        /\ (/\ Rendered /\ ~analyze /\ context = "Lazy"
            /\ expr.kind = "Union" /\ Len(expr.exprs) = 2
            /\ expr.exprs[1].kind = "Reference" /\ expr.exprs[2].kind = "Reference"
            /\ expr.exprs[1] # expr.exprs[2]) =>
               /\ Len(output) = 4
               /\ output[1][Len(output[1])] = [text |-> " [", colour |-> "none",
                                               bold |-> FALSE, dimmed |-> TRUE]
               /\ \A k \in 2..3 :
                     output[k] = <<[text |-> "  ", colour |-> "none", bold |-> FALSE,
                                    dimmed |-> FALSE],
                                   [text |-> expr.exprs[k - 1].reference, colour |-> "none",
                                    bold |-> FALSE, dimmed |-> FALSE]>>
               /\ output[4][2].text = "]"

\* the Union of root() and @ rendered under Lazy with analyze off
C15_Witness ==
    /\ Rendered
    /\ ~analyze
    /\ context = "Lazy"
    /\ expr = List("Union", <<Reference("root()"), Reference("@")>>)
    /\ Len(output) = 4
    /\ output[1][1].colour = "blue"

(***************************************************************************)
(* C16: the lines of the nodes come in depth-first pre-order with children *)
(* in entry order; the root's line is not indented and the line of a node  *)
(* at depth d starts with 2*d spaces, then 'label: ' for a labeled child;  *)
(* a node with children has one closing line, indented 2*d spaces, right   *)
(* after the lines of its last descendant, so the output has one line for  *)
(* each node and one more for each node with children.                     *)
(***************************************************************************)
\* the number of spaces a line of the output starts with
Indentation(k) ==
    IF k = 1 \/ output[k][1].colour # "none" \/ output[k][1].dimmed THEN 0
    ELSE Len(output[k][1].text)

Indentations == Tuple([k \in 1..Len(output) |-> Indentation(k)], Len(output))

\* the line that ends the block opened at line k: the first line after k that
\* is not indented deeper, or 0
RECURSIVE BlockEnd(_, _, _)
BlockEnd(indentations, k, m) ==
    IF m > Len(indentations) THEN 0
    ELSE IF indentations[m] <= indentations[k] THEN m
    ELSE BlockEnd(indentations, k, m + 1)

Closer(open) ==
    CASE open = " {" -> "}"
      [] open = "(" -> ")"
      [] open = " [" -> "]"

\* the visits after visit i that are below it
Descendants(visits, i) ==
    {j \in (i + 1)..Len(visits) :
        \A n \in (i + 1)..j : visits[n].depth > visits[i].depth}

C16_Layout ==
    LET shown == VisitLines
        positions == SelectSeq([k \in 1..Len(output) |-> k],
                               LAMBDA k : IsNodeLine(output[k]))
        visits == Tuple([i \in 1..Len(shown) |-> shown[i].visit], Len(shown))
        indentations == Indentations
        ends == Tuple([k \in 1..Len(output) |-> BlockEnd(indentations, k, k + 1)],
                      Len(output))
    IN  /\ Len(positions) = Len(shown)
        /\ Rendered => (positions[1] = 1 /\ shown[1].visit.depth = 0
                        /\ ~(output[1][1].text = "" \/ output[1][1].text = Spaces(Len(output[1][1].text))))
        /\ \A i \in 1..Len(shown) :
              LET k == positions[i]
                  d == shown[i].visit.depth
                  label == shown[i].visit.label
                  below == Descendants(visits, i)
              IN  /\ shown[i].line.name.text = shown[i].entry.name
                  /\ indentations[k] = 2 * d
                  /\ shown[i].line.indent = Spaces(2 * d)
                  /\ shown[i].line.label = (IF label = <<>> THEN "" ELSE label[1] \o ": ")
                  /\ IF shown[i].entry.children = <<>>
                     THEN k = Len(output) \/ indentations[k + 1] <= 2 * d
                     ELSE LET m == ends[k]
                          IN  /\ m > k
                              /\ IsClosing(output[m])
                              /\ output[m][1] = [text |-> Spaces(2 * d), colour |-> "none",
                                                 bold |-> FALSE, dimmed |-> FALSE]
                              /\ output[m][2].text = Closer(shown[i].line.open)
                              /\ {j \in 1..Len(positions) : k < positions[j] /\ positions[j] < m}
                                     = below
                              /\ below # {}
        /\ Len(output) =
              Len(shown) + Cardinality({i \in 1..Len(shown) : shown[i].entry.children # <<>>})
        /\ \A m \in 1..Len(output) :
              IsClosing(output[m]) =>
                  \E k \in 1..(m - 1) : IsNodeLine(output[k]) /\ ends[k] = m

\* an output with a labeled node at depth 1 that has children, and its
\* closing line followed by a sibling's line
C16_Witness ==
    /\ Rendered
    /\ LET shown == VisitLines
       IN  \E i \in 1..Len(shown) :
              /\ shown[i].visit.depth = 1
              /\ shown[i].visit.label # <<>>
              /\ shown[i].entry.children # <<>>
    /\ \E m \in 1..(Len(output) - 1) :
          /\ IsClosing(output[m])
          /\ IsNodeLine(output[m + 1])
          /\ Indentation(m) = 2

(***************************************************************************)
(* C17: under the ambient context c an Ancestors or Range entry has the    *)
(* context c with Predicate replaced by Lazy; its children are, in this    *)
(* order, generation when the generation range is not the full one and     *)
(* parent_index when the parent-index range is not the full one, both with *)
(* context c, then roots (Range only) and heads, both with context Eager.  *)
(***************************************************************************)
FullU64 == <<<<0, 0, 0, 0>>, <<65535, 65535, 65535, 65535>>>>
FullU32 == <<<<0, 0>>, <<65535, 65535>>>>

Labels(entry) == [i \in 1..Len(entry.children) |-> entry.children[i].label]

ChildOf(entry, label) ==
    LET i == CHOOSE i \in 1..Len(entry.children) : entry.children[i].label = <<label>>
    IN  entry.children[i]

C17_AncestorsRangeEntry ==
    \A n \in ImportedExprs : \A c \in Contexts :
        n.kind \in {"Ancestors", "Range"} =>
            LET entry == ExprEntry(n, c)
            IN  /\ entry.context = (IF c = "Predicate" THEN "Lazy" ELSE c)
                /\ Labels(entry) =
                       (IF n.generation # FullU64 THEN <<<<"generation">>>> ELSE <<>>)
                       \o (IF n.parents_range # FullU32 THEN <<<<"parent_index">>>> ELSE <<>>)
                       \o (IF n.kind = "Range" THEN <<<<"roots">>>> ELSE <<>>)
                       \o <<<<"heads">>>>
                /\ ChildOf(entry, "heads").context = "Eager"
                /\ ChildOf(entry, "heads").tree = n.heads
                /\ n.kind = "Range" =>
                       /\ ChildOf(entry, "roots").context = "Eager"
                       /\ ChildOf(entry, "roots").tree = n.roots
                /\ n.generation # FullU64 =>
                       /\ ChildOf(entry, "generation").context = c
                       /\ ChildOf(entry, "generation").tree.range = n.generation
                /\ n.parents_range # FullU32 =>
                       /\ ChildOf(entry, "parent_index").context = c
                       /\ ChildOf(entry, "parent_index").tree.range = n.parents_range

\* a Range rendered under Predicate in the colour of Lazy, with a generation
\* and a parent_index line and roots rendered in the colour of Eager
C17_Witness ==
    /\ Rendered
    /\ analyze
    /\ context = "Predicate"
    /\ expr.kind = "Range"
    /\ expr.roots.kind = "Union"
    /\ LET shown == VisitLines
       IN  /\ shown[1].line.name.colour = "bright_cyan"
           /\ shown[2].line.label = "generation: "
           /\ shown[3].line.label = "parent_index: "
           /\ shown[4].line.label = "roots: "
           /\ shown[4].line.name.colour = "bright_blue"

(***************************************************************************)
(* C18: under the ambient context c a DagRange entry has the context c     *)
(* with Predicate replaced by Lazy when generation_from_roots is 1..2 and  *)
(* the context Eager for every other range, the full range included; its   *)
(* roots and heads have context Eager.                                     *)
(***************************************************************************)
C18_DagRangeEntry ==
    \A n \in ImportedExprs : \A c \in Contexts :
        n.kind = "DagRange" =>
            LET entry == ExprEntry(n, c)
            IN  /\ n.generation_from_roots = <<<<0, 0, 0, 1>>, <<0, 0, 0, 2>>>> =>
                       entry.context = (IF c = "Predicate" THEN "Lazy" ELSE c)
                /\ n.generation_from_roots # <<<<0, 0, 0, 1>>, <<0, 0, 0, 2>>>> =>
                       entry.context = "Eager"
                /\ n.generation_from_roots = FullU64 => entry.context = "Eager"
                /\ ChildOf(entry, "roots").context = "Eager"
                /\ ChildOf(entry, "roots").tree = n.roots
                /\ ChildOf(entry, "heads").context = "Eager"
                /\ ChildOf(entry, "heads").tree = n.heads

\* a DagRange over 1..2 rendered under Predicate in the colour of Lazy
C18_Witness ==
    /\ Rendered
    /\ analyze
    /\ context = "Predicate"
    /\ expr.kind = "DagRange"
    /\ expr.generation_from_roots = <<U64(1), U64(2)>>
    /\ expr.heads.kind = "Union"
    /\ LET shown == VisitLines
       IN  /\ shown[1].line.name = [text |-> "DagRange", colour |-> "bright_cyan",
                                    bold |-> TRUE, dimmed |-> FALSE]
           /\ \E i \in 1..Len(shown) :
                 /\ shown[i].line.label = "heads: "
                 /\ shown[i].line.name.colour = "bright_blue"

(***************************************************************************)
(* C19: the entries of Reachable, Heads, Roots, ForkPoint, Bisect,         *)
(* HeadsRange, HasSize and Latest have context Eager under every ambient   *)
(* context, and their Expr and Predicate children have contexts that do    *)
(* not depend on it: sources Predicate and domain Eager; the one child of  *)
(* Heads, Roots, ForkPoint and Bisect Eager; roots and heads of HeadsRange *)
(* Eager and its filter, when there is one, Predicate; candidates Lazy for *)
(* HasSize and Eager for Latest; count Resolved.                           *)
(***************************************************************************)
ForcedEager == {"Reachable", "Heads", "Roots", "ForkPoint", "Bisect", "HeadsRange",
                "HasSize", "Latest"}

ChildContexts(entry) ==
    [i \in 1..Len(entry.children) |->
        <<entry.children[i].label, entry.children[i].context, entry.children[i].tree>>]

C19_ForcedEagerEntries ==
    \A n \in ImportedExprs : \A c \in Contexts :
        n.kind \in ForcedEager =>
            LET entry == ExprEntry(n, c)
                children == ChildContexts(entry)
            IN  /\ entry.context = "Eager"
                /\ n.kind = "Reachable" =>
                       children = <<<<<<"sources">>, "Predicate", n.sources>>,
                                    <<<<"domain">>, "Eager", n.domain>>>>
                /\ n.kind \in {"Heads", "Roots", "ForkPoint", "Bisect"} =>
                       children = <<<<<<>>, "Eager", n.expr>>>>
                /\ n.kind = "HeadsRange" =>
                       /\ ChildOf(entry, "roots").context = "Eager"
                       /\ ChildOf(entry, "roots").tree = n.roots
                       /\ ChildOf(entry, "heads").context = "Eager"
                       /\ ChildOf(entry, "heads").tree = n.heads
                       /\ (<<"filter">> \in SeqRange(Labels(entry))) <=> (n.filter.kind # "NoFilter")
                       /\ n.filter.kind # "NoFilter" =>
                              /\ ChildOf(entry, "filter").context = "Predicate"
                              /\ ChildOf(entry, "filter").tree = n.filter
                /\ n.kind = "HasSize" =>
                       children = <<<<<<"count">>, "Resolved", [kind |-> "usize", value |-> n.count]>>,
                                    <<<<"candidates">>, "Lazy", n.candidates>>>>
                /\ n.kind = "Latest" =>
                       children = <<<<<<"count">>, "Resolved", [kind |-> "usize", value |-> n.count]>>,
                                    <<<<"candidates">>, "Eager", n.candidates>>>>

\* a HasSize rendered under Lazy in the colour of Eager, its count plain and
\* its candidates, Slow under Eager, in the colour of Lazy and not marked
C19_Witness ==
    /\ Rendered
    /\ analyze
    /\ context = "Lazy"
    /\ expr.kind = "HasSize"
    /\ ExprCost(expr.candidates, "Eager") = "Slow"
    /\ LET shown == VisitLines
       IN  /\ shown[1].line.name.colour = "bright_blue"
           /\ shown[2].line.label = "count: "
           /\ shown[2].line.name = [text |-> "1", colour |-> "none", bold |-> FALSE,
                                    dimmed |-> FALSE]
           /\ shown[3].line.label = "candidates: "
           /\ shown[3].line.name.colour = "bright_cyan"
           /\ ~shown[3].line.marker

(***************************************************************************)
(* C20: under the ambient context c the entries of Intersection and        *)
(* Difference have context c; every member of the Intersection and the     *)
(* excluded operand of the Difference have c with Eager replaced by Lazy,  *)
(* the candidates operand has c.  So the renderer visits no member of an   *)
(* Intersection and no excluded operand with the context Eager.            *)
(***************************************************************************)
C20_IntersectionDifferenceEntry ==
    /\ \A n \in ImportedExprs : \A c \in Contexts :
          LET entry == ExprEntry(n, c)
              lazy == IF c = "Eager" THEN "Lazy" ELSE c
          IN  /\ n.kind = "Intersection" =>
                     /\ entry.context = c
                     /\ ChildContexts(entry) =
                            [i \in 1..Len(n.exprs) |-> <<<<>>, lazy, n.exprs[i]>>]
              /\ n.kind = "Difference" =>
                     /\ entry.context = c
                     /\ ChildContexts(entry) =
                            <<<<<<"candidates">>, c, n.expr1>>,
                              <<<<"excluded">>, lazy, n.expr2>>>>
    /\ LET visits == Visits
       IN  \A i \in 1..Len(visits) :
               (visits[i].parent = "Intersection" \/ visits[i].label = <<"excluded">>) =>
                   visits[i].context # "Eager"

\* a Difference rendered under Eager: candidates marked and in the colour of
\* Eager, excluded, the same walk, not marked and in the colour of Lazy
C20_Witness ==
    /\ Rendered
    /\ analyze
    /\ context = "Eager"
    /\ expr.kind = "Difference"
    /\ expr.expr1 = expr.expr2
    /\ LET shown == VisitLines
       IN  /\ shown[1].line.name.colour = "bright_blue"
           /\ shown[2].line.label = "candidates: "
           /\ shown[2].line.marker
           /\ shown[2].line.name.colour = "bright_blue"
           /\ \E i \in 3..Len(shown) :
                 /\ shown[i].line.label = "excluded: "
                 /\ ~shown[i].line.marker
                 /\ shown[i].line.name.colour = "bright_cyan"

(***************************************************************************)
(* C21: under the ambient context c the entries of Coalesce, Union and     *)
(* FilterWithin have context c; every member of the Coalesce or Union and  *)
(* the candidates of the FilterWithin have c, the predicate has Predicate  *)
(* for every c.  So the renderer visits with Eager every node that lies    *)
(* below an Eager root through Unions and Coalesces alone.                 *)
(***************************************************************************)
\* the visit of the parent of visit j: the last visit before j that is less deep
RECURSIVE ParentOf(_, _, _)
ParentOf(visits, j, i) ==
    IF i = 0 THEN 0
    ELSE IF visits[i].depth < visits[j].depth THEN i
    ELSE ParentOf(visits, j, i - 1)

Parents(visits) == Tuple([j \in 1..Len(visits) |-> ParentOf(visits, j, j - 1)], Len(visits))

\* whether every visit above visit j is of a Union or a Coalesce
RECURSIVE BelowListsOnly(_, _, _)
BelowListsOnly(visits, parents, j) ==
    \/ parents[j] = 0
    \/ /\ visits[parents[j]].tree.kind \in {"Union", "Coalesce"}
       /\ BelowListsOnly(visits, parents, parents[j])

C21_ListAndFilterWithinEntry ==
    /\ \A n \in ImportedExprs : \A c \in Contexts :
          LET entry == ExprEntry(n, c)
          IN  /\ n.kind \in {"Coalesce", "Union"} =>
                     /\ entry.context = c
                     /\ ChildContexts(entry) =
                            [i \in 1..Len(n.exprs) |-> <<<<>>, c, n.exprs[i]>>]
              /\ n.kind = "FilterWithin" =>
                     /\ entry.context = c
                     /\ ChildContexts(entry) =
                            <<<<<<"candidates">>, c, n.candidates>>,
                              <<<<"predicate">>, "Predicate", n.predicate>>>>
    /\ LET visits == Visits
           parents == Parents(visits)
       IN  \A j \in 2..Len(visits) :
               LET parent == visits[parents[j]]
               IN  /\ parent.tree.kind \in {"Coalesce", "Union"} =>
                          visits[j].context = parent.context
                   /\ (parent.tree.kind = "FilterWithin" /\ visits[j].label = <<"candidates">>) =>
                          visits[j].context = parent.context
                   /\ (parent.tree.kind = "FilterWithin" /\ visits[j].label = <<"predicate">>) =>
                          visits[j].context = "Predicate"
                   /\ (context = "Eager" /\ BelowListsOnly(visits, parents, j)) =>
                          visits[j].context = "Eager"

\* a FilterWithin rendered under Eager: its candidates, a Union, and the
\* Coalesce in it in the colour of Eager, a walk in the Coalesce marked, and
\* the predicate, the same walk, not marked
C21_Witness ==
    /\ Rendered
    /\ analyze
    /\ context = "Eager"
    /\ expr.kind = "FilterWithin"
    /\ expr.candidates.kind = "Union"
    /\ LET shown == VisitLines
       IN  /\ shown[2].line.name.colour = "bright_blue"
           /\ \E i \in 3..Len(shown) :
                 /\ shown[i].visit.tree.kind = "Coalesce"
                 /\ shown[i].visit.depth = 2
                 /\ shown[i].line.name.colour = "bright_blue"
                 /\ shown[i + 1].line.marker
           /\ \E i \in 3..Len(shown) :
                 /\ shown[i].line.label = "predicate: "
                 /\ shown[i].visit.context = "Predicate"
                 /\ ~shown[i].line.marker
                 /\ ExprCost(shown[i].visit.tree.expr, "Eager") = "Slow"

(***************************************************************************)
(* C22: the entry and the cost of a Predicate node are the same under      *)
(* every ambient context.  Filter, Divergent, NotIn, Union and             *)
(* Intersection have context Predicate and hand Predicate to their         *)
(* Predicate children, Divergent hands Eager to visible_heads; a Set has   *)
(* the entry and the cost of its Expr under Predicate, so a Set of an      *)
(* Ancestors or Range is displayed as Lazy and is Fast.                    *)
(***************************************************************************)
ImportedPredicates == {n \in Imported : n.kind \in PredicateKinds}

C22_PredicateIgnoresAmbient ==
    /\ \A n \in ImportedPredicates : \A c \in Contexts :
          LET entry == PredicateEntry(n, c)
              children == ChildContexts(entry)
          IN  /\ entry = PredicateEntry(n, "Eager")
              /\ PredicateCost(n, c) = PredicateCost(n, "Eager")
              /\ n.kind # "PSet" =>
                     /\ entry.context = "Predicate"
                     /\ \A i \in 1..Len(children) :
                            children[i][3].kind \in PredicateKinds =>
                                children[i][2] = "Predicate"
              /\ n.kind = "PFilter" => children = <<>>
              /\ n.kind = "PDivergent" =>
                     children = <<<<<<"visible_heads">>, "Eager", n.visible_heads>>>>
              /\ n.kind \in {"PUnion", "PIntersection"} =>
                     children = [i \in 1..Len(n.exprs) |-> <<<<>>, "Predicate", n.exprs[i]>>]
              /\ n.kind = "PSet" =>
                     /\ entry = ExprEntry(n.expr, "Predicate")
                     /\ PredicateCost(n, c) = ExprCost(n.expr, "Predicate")
                     /\ n.expr.kind \in {"Ancestors", "Range"} =>
                            /\ entry.context = "Lazy"
                            /\ PredicateCost(n, c) = "Fast"
    /\ LET shown == VisitLines
       IN  \A i \in 1..Len(shown) :
               LET tree == shown[i].visit.tree
               IN  /\ (tree.kind \in PredicateKinds /\ tree.kind # "PSet" /\ analyze) =>
                          shown[i].line.name.colour = "bright_magenta"
                   /\ (tree.kind = "PSet" /\ tree.expr.kind \in {"Ancestors", "Range"}) =>
                          /\ shown[i].line.name.text = tree.expr.kind
                          /\ analyze => shown[i].line.name.colour = "bright_cyan"
                          /\ ~shown[i].line.marker

\* a Predicate list rendered with a Set of a walk that is Slow under Eager, in
\* the colour of Lazy and not marked, and a Divergent whose visible_heads is
\* visited with Eager
C22_Witness ==
    /\ Rendered
    /\ analyze
    /\ LET shown == VisitLines
       IN  /\ \E i \in 1..Len(shown) :
                 /\ shown[i].visit.tree.kind \in {"PUnion", "PIntersection"}
                 /\ shown[i].line.name.colour = "bright_magenta"
                 /\ shown[i + 1].visit.tree.kind = "PSet"
                 /\ shown[i + 1].visit.tree.expr.kind = "Ancestors"
                 /\ ExprCost(shown[i + 1].visit.tree.expr, "Eager") = "Slow"
                 /\ shown[i + 1].line.name.colour = "bright_cyan"
                 /\ ~shown[i + 1].line.marker
           /\ \E i \in 2..Len(shown) :
                 /\ shown[i].visit.label = <<"visible_heads">>
                 /\ shown[i].visit.context = "Eager"
                 /\ shown[i - 1].line.name.text = "Divergent"

(***************************************************************************)
(* C23: a generation range start..end is large exactly when                *)
(* start + 10000 <= end: width 10000 is large and width 9999 is not, the   *)
(* full range is large, a range with end < start is not large, and the     *)
(* width computed is a 64-bit value for every pair of bounds.              *)
(***************************************************************************)
\* a + n with the carry out as a leading limb, for n below the limb base
RECURSIVE Plus(_, _)
Plus(a, n) ==
    IF a = <<>> THEN <<n>>
    ELSE LET v == a[Len(a)] + n
         IN  Append(Plus(SubSeq(a, 1, Len(a) - 1), v \div 65536), v % 65536)

Wide(range) == ~LimbsLt(<<0>> \o range[2], Plus(range[1], 10000))

\* the ranges of the nodes of the imported expression
ImportedRanges ==
    {n.generation : n \in {m \in ImportedExprs : m.kind \in {"Ancestors", "Range"}}}
    \cup {n.generation_from_roots : n \in {m \in ImportedExprs : m.kind = "DagRange"}}

C23_LargeRange ==
    /\ \A range \in ImportedRanges :
          LET width == SaturatingSub(range[2], range[1])
          IN  /\ is_large_range(range) <=> Wide(range)
              /\ LimbsLt(range[2], range[1]) =>
                     (width = <<0, 0, 0, 0>> /\ ~is_large_range(range))
              /\ Len(width) = 4
              /\ \A i \in 1..4 : width[i] \in 0..65535
              /\ ~LimbsLt(range[2], range[1]) => Plus(width, 0) = <<0>> \o width
              /\ range = <<<<0, 0, 0, 0>>, <<0, 0, 0, 10000>>>> => is_large_range(range)
              /\ range = <<<<0, 0, 0, 0>>, <<0, 0, 0, 9999>>>> => ~is_large_range(range)
              /\ range = <<<<0, 0, 0, 60000>>, <<0, 0, 1, 4464>>>> => is_large_range(range)
              /\ range = <<<<0, 0, 0, 60000>>, <<0, 0, 1, 4463>>>> => ~is_large_range(range)
              /\ range = <<<<0, 0, 0, 0>>, <<65535, 65535, 65535, 65535>>>> =>
                     is_large_range(range)
              /\ range = <<<<0, 0, 0, 20000>>, <<0, 0, 0, 5>>>> => ~is_large_range(range)
    /\ (Rendered /\ analyze /\ context = "Eager" /\ expr.kind = "Ancestors"
        /\ expr.heads = Reference("visible_heads()")) =>
           (IsMarker(output[1][1]) <=> Wide(expr.generation))

\* the ancestors of visible_heads() within 20000..5 rendered under Eager
\* without the marker
C23_Witness ==
    /\ Rendered
    /\ analyze
    /\ context = "Eager"
    /\ expr.kind = "Ancestors"
    /\ expr.generation = <<U64(20000), U64(5)>>
    /\ ~IsMarker(output[1][1])
    /\ output[2][Len(output[2])].text = "20000..5"

(***************************************************************************)
(* C24: in the flat list of an imported Union nest a literal operand       *)
(* without visible_heads() stands as one Reference for each of its         *)
(* elements, in order, and so as nothing when it is empty: the Union can   *)
(* have fewer than two members.  A literal operand with visible_heads()    *)
(* stands as the one member the literal imports to.  In the flat list of   *)
(* an Intersection or Coalesce nest every operand that is not of the       *)
(* nest's kind stands as one member, literal operands as what they import  *)
(* to.                                                                     *)
(***************************************************************************)
HasVisibleHeads(ids) == \E j \in 1..Len(ids) : TextOf(ids[j]) = "visible_heads()"

\* the number of members an operand of a nest stands for
MemberCount(kind, leaf) ==
    IF kind = "Union" /\ leaf.kind = "Commits" /\ ~HasVisibleHeads(leaf.ids)
    THEN Len(leaf.ids) ELSE 1

RECURSIVE MembersBefore(_, _, _)
MembersBefore(kind, leaves, i) ==
    IF i = 1 THEN 0
    ELSE MembersBefore(kind, leaves, i - 1) + MemberCount(kind, leaves[i - 1])

\* what a literal set imports to on its own
LiteralMember(ids) ==
    CASE Len(ids) = 0 -> [kind |-> "None"]
      [] Len(ids) = 1 -> [kind |-> "Reference", reference |-> TextOf(ids[1])]
      [] Len(ids) >= 2 /\ HasVisibleHeads(ids) ->
            [kind |-> "Reference", reference |-> "visible_heads() and referenced revisions"]
      [] OTHER ->
            [kind |-> "Union",
             exprs |-> [j \in 1..Len(ids) |->
                           [kind |-> "Reference", reference |-> TextOf(ids[j])]]]

C24_UnionExpandsLiterals ==
    IsNest =>
        LET kind == backend.kind
            leaves == InOrderLeaves(kind, backend)
        IN  /\ expr.kind = kind
            /\ Len(expr.exprs) =
                   MembersBefore(kind, leaves, Len(leaves) + 1)
            /\ \A i \in 1..Len(leaves) :
                  LET leaf == leaves[i]
                      before == MembersBefore(kind, leaves, i)
                  IN  IF leaf.kind = "Commits"
                      THEN IF kind = "Union" /\ ~HasVisibleHeads(leaf.ids)
                           THEN \A j \in 1..Len(leaf.ids) :
                                    expr.exprs[before + j] =
                                        [kind |-> "Reference",
                                         reference |-> TextOf(leaf.ids[j])]
                           ELSE expr.exprs[before + 1] = LiteralMember(leaf.ids)
                      ELSE expr.exprs[before + 1].kind = leaf.kind
            /\ kind # "Union" => Len(expr.exprs) = Len(leaves)

\* the Union of the empty literal set and the literal set of visible_heads()
\* and root() imported to a Union of one member
C24_Witness ==
    /\ IsNest
    /\ backend = Binary("Union", Commits(<<>>), Commits(<<Id(1), Id(0)>>))
    /\ expr = List("Union", <<Reference(VisibleHeadsOrReferencedRef)>>)

(***************************************************************************)
(* C25: in the flat list of an imported Predicate Union nest a Set operand *)
(* whose expression imports to an Expr::Union stands as one Set for each   *)
(* member of that Union, in order, and every other operand as one member;  *)
(* so no imported Predicate Union has a Set of an Expr::Union as a direct  *)
(* member.  In a Predicate Intersection nest every operand stands as one   *)
(* member, a Set of an Expr::Union included.                               *)
(***************************************************************************)
IsPredicateNest ==
    /\ pc = "print"
    /\ backend.kind = "FilterWithin"
    /\ backend.predicate.kind \in {"PUnion", "PIntersection"}

\* whether an operand is a Set whose expression imports to an Expr::Union
IsSetOfUnion(leaf) ==
    leaf.kind = "PSet" /\ ExprParse(leaf.expr, references).kind = "Union"

\* the number of members an operand of a Predicate nest stands for
PredicateMemberCount(kind, leaf) ==
    IF kind = "PUnion" /\ IsSetOfUnion(leaf)
    THEN Len(ExprParse(leaf.expr, references).exprs) ELSE 1

RECURSIVE PredicateMembersBefore(_, _, _)
PredicateMembersBefore(kind, leaves, i) ==
    IF i = 1 THEN 0
    ELSE PredicateMembersBefore(kind, leaves, i - 1)
         + PredicateMemberCount(kind, leaves[i - 1])

C25_PredicateUnionSplicesSets ==
    /\ IsPredicateNest =>
          LET kind == backend.predicate.kind
              leaves == InOrderLeaves(kind, backend.predicate)
              flat == expr.predicate.exprs
          IN  /\ expr.predicate.kind = kind
              /\ Len(flat) = PredicateMembersBefore(kind, leaves, Len(leaves) + 1)
              /\ \A i \in 1..Len(leaves) :
                    LET leaf == leaves[i]
                        before == PredicateMembersBefore(kind, leaves, i)
                    IN  IF kind = "PUnion" /\ IsSetOfUnion(leaf)
                        THEN LET members == ExprParse(leaf.expr, references).exprs
                             IN  \A j \in 1..Len(members) :
                                     flat[before + j] = [kind |-> "PSet", expr |-> members[j]]
                        ELSE /\ flat[before + 1].kind = leaf.kind
                             /\ leaf.kind = "PSet" =>
                                    flat[before + 1].expr = ExprParse(leaf.expr, references)
              /\ kind = "PIntersection" => Len(flat) = Len(leaves)
    /\ \A n \in Imported :
          n.kind = "PUnion" =>
              \A i \in 1..Len(n.exprs) :
                  ~(n.exprs[i].kind = "PSet" /\ n.exprs[i].expr.kind = "Union")

\* a Predicate Union nest of two operands, one of them the Set of a Union of
\* two, imported to three members, the last of them a Predicate Intersection
\* that keeps the Set of the Union
C25_Witness ==
    /\ IsPredicateNest
    /\ backend.predicate.kind = "PUnion"
    /\ Len(InOrderLeaves("PUnion", backend.predicate)) = 2
    /\ Len(expr.predicate.exprs) = 3
    /\ expr.predicate.exprs[1] = PSet(Reference(RootRef))
    /\ \E n \in Imported :
          /\ n.kind = "PIntersection"
          /\ \E i \in 1..Len(n.exprs) :
                n.exprs[i].kind = "PSet" /\ n.exprs[i].expr.kind = "Union"

(***************************************************************************)
(* C26: the line of NotIn(p) for an atomic Filter p is a leaf named '~'    *)
(* and the text of the filter, or 'empty()' for the File filter over all   *)
(* files; for every other p it is 'NotIn(' followed by the lines of p,     *)
(* rendered as the one unlabeled child with context Predicate, and ')'.    *)
(* NotIn(NotIn(f)) is the wrapper NotIn around the leaf of NotIn(f).       *)
(***************************************************************************)
NegatedText(filter) ==
    IF filter = [filter |-> "File", files |-> "All"] THEN "empty()"
    ELSE IF filter = [filter |-> "File", files |-> "None"] THEN "~files(none())"
    ELSE "~" \o FilterText(filter)

C26_NotInRendering ==
    LET shown == VisitLines
    IN  \A i \in 1..Len(shown) :
            LET tree == shown[i].visit.tree
                line == shown[i].line
            IN  tree.kind = "PNotIn" =>
                    IF tree.expr.kind = "PFilter"
                    THEN /\ line.name.text = NegatedText(tree.expr.filter)
                         /\ line.open = ""
                         /\ line.pieces = 1
                         /\ ~line.name.bold
                         /\ i < Len(shown) => shown[i + 1].visit.depth <= shown[i].visit.depth
                    ELSE /\ line.name.text = "NotIn"
                         /\ line.open = "("
                         /\ line.name.bold
                         /\ shown[i + 1].visit =
                                [tree |-> tree.expr, context |-> "Predicate",
                                 depth |-> shown[i].visit.depth + 1, label |-> <<>>,
                                 parent |-> "NotIn"]
                         /\ shown[i + 1].line.label = ""
                         /\ \A j \in (i + 2)..Len(shown) :
                                shown[j].visit.depth = shown[i].visit.depth + 1 =>
                                    \E k \in (i + 2)..j :
                                        shown[k].visit.depth <= shown[i].visit.depth
                         /\ tree.expr.kind = "PNotIn" /\ tree.expr.expr.kind = "PFilter" =>
                                /\ shown[i + 1].line.name.text =
                                       NegatedText(tree.expr.expr.filter)
                                /\ shown[i + 1].line.open = ""

\* NotIn(NotIn(conflicts)) rendered as the wrapper NotIn around the leaf
\* ~conflicts()
C26_Witness ==
    /\ Rendered
    /\ expr.kind = "FilterWithin"
    /\ expr.predicate = PNotIn(PNotIn(PFilter(HasConflict)))
    /\ Len(output) = 6
    /\ output[3][Len(output[3]) - 1].text = "NotIn"
    /\ output[3][Len(output[3])].text = "("
    /\ output[4][Len(output[4])].text = "~conflicts()"
    /\ output[5][2].text = ")"

(***************************************************************************)
(* C27: the work-stack loop of import ends for every nest.  Each iteration *)
(* pops one pending node and either pushes its two operands, which are     *)
(* smaller, or adds to the result, so the nodes pending and the iterations *)
(* made always add up to 2 * n - 2 for a nest of n operands that are not   *)
(* of its kind: the two operands of the root start on the stack and the    *)
(* root itself is never popped.  The loop is left with the stack empty     *)
(* after exactly 2 * n - 2 pops, with the model Expr::parse or             *)
(* Predicate::parse returns for the nest.                                  *)
(***************************************************************************)
\* the nodes of a pending operand the loop will pop: the operand, and the
\* nodes of its operands when it is of the nest's kind
RECURSIVE PendingNodes(_, _)
PendingNodes(kind, node) ==
    IF node.kind = kind
    THEN 1 + PendingNodes(kind, node.expr1) + PendingNodes(kind, node.expr2)
    ELSE 1

RECURSIVE PendingSize(_, _)
PendingSize(kind, pending) ==
    IF pending = <<>> THEN 0
    ELSE PendingNodes(kind, Head(pending)) + PendingSize(kind, Tail(pending))

NestOperands == Len(InOrderLeaves(backend.kind, backend))

ParsedNest ==
    IF backend.kind \in {"PUnion", "PIntersection"}
    THEN PredicateParse(backend, references)
    ELSE ExprParse(backend, references)

LoopProgress ==
    /\ pc = "import" => pops = 0
    /\ pc = "loop" =>
          /\ pops + PendingSize(backend.kind, stack) = 2 * NestOperands - 2
          /\ \A i \in 1..Len(stack) : PendingNodes(backend.kind, stack[i]) >= 1
    /\ pc = "print" =>
          /\ stack = <<>>
          /\ pops = 2 * NestOperands - 2
          /\ expr = ParsedNest
          /\ expr.kind = backend.kind
    /\ pc \in {"import", "loop", "print"}

C27_FlatteningTerminates == []LoopProgress /\ <>(pc = "print" /\ expr # NoTree)

\* a nest of four operands that leans neither way, left after six pops
C27_Witness ==
    /\ pc = "print"
    /\ NestOperands = 4
    /\ backend.expr1.kind = backend.kind
    /\ backend.expr2.kind = backend.kind
    /\ pops = 6
    /\ stack = <<>>
    /\ expr.kind = backend.kind

\* C27 as stated: the stack is empty after exactly 2 * n - 1 pops
C27_Original == pc = "print" => pops = 2 * NestOperands - 1

(***************************************************************************)
(* C28: the import leaves the table as it is: its entries and their        *)
(* positions are the same after Expr::parse as before, for every backend   *)
(* expression, and the table changes only in the steps before the import.  *)
(* An identifier of the backend expression that no insert returned is      *)
(* never inserted: the import ends the run when it looks the identifier    *)
(* up, and it looks up every identifier of a literal set but those that    *)
(* come after visible_heads() in a set of two or more, where the import    *)
(* completes.                                                              *)
(***************************************************************************)
RECURSIVE BackendNodes(_)
BackendNodes(e) ==
    {e} \cup UNION {BackendNodes(BackendOperands(e)[i]) : i \in 1..Len(BackendOperands(e))}

\* the literal sets of the backend expression
BackendLiterals ==
    {n.ids : n \in {m \in BackendNodes(backend) : m.kind = "Commits"}}
    \cup {n.visible_heads : n \in {m \in BackendNodes(backend) : m.kind = "PDivergent"}}

IsStray(commit_id) == FromLeBytes(commit_id) >= Len(references)

IsVisibleHeads(commit_id) ==
    ~IsStray(commit_id) /\ references[FromLeBytes(commit_id) + 1] = "visible_heads()"

HasStray == \E ids \in BackendLiterals : \E i \in 1..Len(ids) : IsStray(ids[i])

LooksUpStray ==
    \E ids \in BackendLiterals : \E i \in 1..Len(ids) :
        /\ IsStray(ids[i])
        /\ \A j \in 1..(i - 1) : ~IsVisibleHeads(ids[j])

Resolution == {"root", "visible_heads", "resolve"}

ImportStep ==
    /\ pc = "import" => references' = references
    /\ references' # references => (pc \in Resolution /\ pc' \in Resolution)
    /\ pc \notin Resolution => references' = references
    /\ (pc = "import" /\ LooksUpStray) => pc' = "aborted"
    /\ (pc = "import" /\ ~LooksUpStray) =>
          /\ pc' = "print"
          /\ expr' # NoTree
          /\ \A n \in Nodes(expr') :
                n.kind = "Reference" =>
                    n.reference \in SeqRange(references)
                                    \cup {"visible_heads() and referenced revisions"}
    /\ pc = "aborted" => pc' = "aborted"

C28_ImportReadsOnly == [][ImportStep]_vars

\* the import of a Union with an identifier that was not inserted ended the
\* run with the table of three entries as it was
C28_Witness ==
    /\ pc = "aborted"
    /\ backend.kind = "Union"
    /\ HasStray
    /\ references = <<"root()", "visible_heads()", "@">>
    /\ expr = NoTree

\* C28 as stated: every identifier that was not inserted makes the import abort
OriginalImportStep ==
    /\ pc = "import" => references' = references
    /\ references' # references => (pc \in Resolution /\ pc' \in Resolution)
    /\ (pc = "import" /\ HasStray) => pc' = "aborted"

C28_Original == [][OriginalImportStep]_vars

(***************************************************************************)
(* C29: the cost is monotone in the context: an expression that is Slow in *)
(* some context is Slow in the Eager context, and its cost is the same in  *)
(* the Lazy, Predicate and Resolved contexts; leaving the Eager context    *)
(* turns Slow into Fast at most, never Fast into Slow.                     *)
(***************************************************************************)
C29_CostMonotone ==
    \A e \in ImportedExprs :
        /\ \A c \in Contexts : ExprCost(e, c) = "Slow" => ExprCost(e, "Eager") = "Slow"
        /\ ExprCost(e, "Lazy") = ExprCost(e, "Predicate")
        /\ ExprCost(e, "Predicate") = ExprCost(e, "Resolved")
        /\ \A c \in Contexts : ExprCost(e, "Eager") = "Fast" => ExprCost(e, c) = "Fast"

\* an imported Intersection that is Slow in the Eager context only, with a
\* member that is Slow in every context and a member Slow in the Eager one only
C29_Witness ==
    \E e \in ImportedExprs :
        /\ e.kind = "Intersection"
        /\ ExprCost(e, "Eager") = "Slow"
        /\ \A c \in Contexts \ {"Eager"} : ExprCost(e, c) = "Fast"
        /\ \E i \in 1..Len(e.exprs) : \A c \in Contexts : ExprCost(e.exprs[i], c) = "Slow"
        /\ \E i \in 1..Len(e.exprs) :
              /\ ExprCost(e.exprs[i], "Eager") = "Slow"
              /\ ExprCost(e.exprs[i], "Lazy") = "Fast"

(***************************************************************************)
(* C30: in the output of a run with analyze on, every direct member of an  *)
(* Intersection printed with the (EXPENSIVE) marker is Slow under the      *)
(* context of the Intersection; the member is printed under that context   *)
(* with Eager turned to Lazy and has the marker exactly when it is Slow    *)
(* there, which is the case for every member when the Intersection is      *)
(* not under Eager.                                                        *)
(***************************************************************************)
\* the lines of the members of the Intersections printed with the marker, each
\* with the line of its Intersection
MarkedIntersectionMembers ==
    LET lines == VisitLines
        parents == Parents(Visits)
    IN  {<<lines[parents[j]], lines[j]>> :
            j \in {i \in 2..Len(lines) :
                      /\ lines[parents[i]].visit.tree.kind = "Intersection"
                      /\ lines[parents[i]].line.marker}}

C30_MarkedIntersectionMembers ==
    analyze =>
        \A pair \in MarkedIntersectionMembers :
            LET whole == pair[1].visit
                member == pair[2].visit
            IN  /\ ExprCost(member.tree, whole.context) = "Slow"
                /\ member.context = eager_to_lazy(whole.context)
                /\ pair[2].line.marker = (ExprCost(member.tree, member.context) = "Slow")
                /\ whole.context # "Eager" => pair[2].line.marker

\* an Intersection printed with the marker under a context other than Eager,
\* each of its members with the marker
C30_Witness ==
    /\ analyze
    /\ \E pair \in MarkedIntersectionMembers :
          /\ pair[1].visit.context \in {"Lazy", "Predicate"}
          /\ pair[2].line.marker
          /\ pair[2].visit.tree.kind = "DagRange"

\* C30 as stated: every member of a marked Intersection has the marker
C30_Original ==
    analyze => \A pair \in MarkedIntersectionMembers : pair[2].line.marker
====
